---- MODULE Spec2Model ----
(***************************************************************************)
(* Stats-Of-Legends: the match aggregation pipeline (MatchProcessor), the  *)
(* timeline item-event cleaning, and the frequency-map merges.             *)
(*                                                                         *)
(* The store (ScannedMatch, ChampionStat, MatchupStat, DuoStat) is the     *)
(* state; every awaited store call of processMatch is one step of a call,  *)
(* so that calls can interleave and fail between any two store calls.      *)
(***************************************************************************)
EXTENDS Integers, Sequences, FiniteSets, TLC

\* ---------------------------------------------------------------- bounds
\* concurrent processMatch calls (call slots)
NumCalls == 2
\* processMatch invocations in one behaviour
MaxRuns == 2
\* timeline fetches that fail in one behaviour
MaxTimelineFailures == 1
\* length of a participant's item-event stream in the cleaning specification
MaxEvents == 3

Calls == 1..NumCalls

\* A string the program has not got: null, undefined
NULL == "null"

\* An optional value: None, or Some(v) with The(o) = v
None == <<>>
Some(v) == <<v>>
The(o) == o[1]

\* ------------------------------------------------------------ small helpers
RECURSIVE JoinInts(_, _)
\* Array.prototype.join on numbers: decimal strings separated by sep
JoinInts(s, sep) ==
    IF Len(s) = 0 THEN ""
    ELSE IF Len(s) = 1 THEN ToString(s[1])
    ELSE ToString(s[1]) \o sep \o JoinInts(Tail(s), sep)

RECURSIVE JoinStrs(_, _)
JoinStrs(s, sep) ==
    IF Len(s) = 0 THEN ""
    ELSE IF Len(s) = 1 THEN s[1]
    ELSE s[1] \o sep \o JoinStrs(Tail(s), sep)

RECURSIVE Uniq(_)
\* Array.from(new Set(s)): first occurrences, in order
Uniq(s) ==
    IF Len(s) = 0 THEN <<>>
    ELSE LET r == Uniq(SubSeq(s, 1, Len(s) - 1))
         IN IF \E i \in 1..Len(r) : r[i] = s[Len(s)] THEN r ELSE Append(r, s[Len(s)])

SortAsc(s) == SortSeq(s, LAMBDA a, b : a < b)

MapSeq(s, F(_)) == [i \in 1..Len(s) |-> F(s[i])]

Range(s) == {s[i] : i \in 1..Len(s)}

\* --------------------------------------------------- frequency maps (JSON)
\* A frequency map is a function from a property name (a string) to
\* [wins, matches].  The `build` array stored beside the final-build entry is
\* a function of its key and is left out.
EmptyMap == [k \in {} |-> [wins |-> 0, matches |-> 0]]

WinInc(win) == IF win THEN 1 ELSE 0

\* items[key] = { wins: win ? 1 : 0, matches: 1 }
Put(m, key, win) ==
    [k \in DOMAIN m \cup {key} |->
        IF k = key THEN [wins |-> WinInc(win), matches |-> 1] ELSE m[k]]

\* if (!m[key]) m[key] = {wins: 0, matches: 0}; m[key].wins += win ? 1 : 0; m[key].matches++
Bump(m, key, win) ==
    [k \in DOMAIN m \cup {key} |->
        IF k = key
        THEN IF key \in DOMAIN m
             THEN [wins |-> m[k].wins + WinInc(win), matches |-> m[k].matches + 1]
             ELSE [wins |-> WinInc(win), matches |-> 1]
        ELSE m[k]]

RECURSIVE BumpAll(_, _, _)
BumpAll(m, keys, win) ==
    IF Len(keys) = 0 THEN m
    ELSE BumpAll(Bump(m, keys[1], win), Tail(keys), win)

\* a mutant of merge: an existing key is overwritten by the source entry
mergeOverwrite(target, source) ==
    [k \in DOMAIN target \cup DOMAIN source |->
        IF k \in DOMAIN source THEN source[k] ELSE target[k]]

\* the merge closure of upsertChampionStats
merge(target, source) ==
    [k \in DOMAIN target \cup DOMAIN source |->
        IF k \in DOMAIN source
        THEN IF k \in DOMAIN target
             THEN [wins |-> target[k].wins + source[k].wins,
                   matches |-> target[k].matches + source[k].matches]
             ELSE source[k]
        ELSE target[k]]

\* ChampionDetailService.mergeDeepStats (the tier-list page)
mergeDeepStats(target, source) ==
    [k \in DOMAIN target \cup DOMAIN source |->
        LET t == IF k \in DOMAIN target THEN target[k] ELSE [wins |-> 0, matches |-> 0]
        IN IF k \in DOMAIN source
           THEN [wins |-> t.wins + source[k].wins, matches |-> t.matches + source[k].matches]
           ELSE t]

\* ------------------------------------------------------------ role handling
normalizeRole(role) ==
    IF role = "MIDDLE" THEN "MID"
    ELSE IF role = "BOTTOM" THEN "ADC"
    ELSE IF role = "UTILITY" THEN "SUPPORT"
    ELSE role

\* if (!role || role === 'Invalid') return;
RoleExcluded(role) == role = "" \/ role = "Invalid"

validDuos == {<<"MID", "JUNGLE">>, <<"ADC", "SUPPORT">>, <<"TOP", "JUNGLE">>}

\* a mutant of isDuo: a pair is matched in the listed order only
isDuoOneWay(role, mateRole) ==
    \E pair \in validDuos : pair[1] = role /\ pair[2] = mateRole

isDuo(role, mateRole) ==
    \E pair \in validDuos :
        \/ pair[1] = role /\ pair[2] = mateRole
        \/ pair[2] = role /\ pair[1] = mateRole

\* ------------------------------------------------------- timeline cleaning
\* An item event: [type, participantId, timestamp, itemId, beforeId, afterId];
\* a field the API does not send for the type is 0.
\* a mutant of the undo match: a purchase is matched on afterId
IsUndoMatchAfterId(lastEv, ev) ==
    \/ lastEv.type = "ITEM_PURCHASED" /\ lastEv.itemId = ev.afterId
    \/ lastEv.type = "ITEM_SOLD" /\ lastEv.itemId = ev.afterId

\* the undo condition: a purchase is matched on beforeId, a sale on afterId
IsUndoMatch(lastEv, ev) ==
    \/ lastEv.type = "ITEM_PURCHASED" /\ lastEv.itemId = ev.beforeId
    \/ lastEv.type = "ITEM_SOLD" /\ lastEv.itemId = ev.afterId

\* a mutant of the cleaning step: an undo removes the last matching event
\* wherever it is in the clean list
CleanStepLookBack(clean, ev) ==
    IF ev.type \in {"ITEM_PURCHASED", "ITEM_SOLD"} THEN Append(clean, ev)
    ELSE IF \E i \in 1..Len(clean) : IsUndoMatch(clean[i], ev)
         THEN LET i == CHOOSE n \in 1..Len(clean) :
                          /\ IsUndoMatch(clean[n], ev)
                          /\ \A q \in (n + 1)..Len(clean) : ~IsUndoMatch(clean[q], ev)
              IN SubSeq(clean, 1, i - 1) \o SubSeq(clean, i + 1, Len(clean))
         ELSE clean

\* one iteration of `for (const ev of allItemEvents)`
CleanStep(clean, ev) ==
    IF ev.type \in {"ITEM_PURCHASED", "ITEM_SOLD"} THEN Append(clean, ev)
    ELSE IF ev.type = "ITEM_UNDO"
         THEN IF Len(clean) - 1 >= 0 /\ IsUndoMatch(clean[Len(clean)], ev)
              THEN SubSeq(clean, 1, Len(clean) - 1)
              ELSE clean
         ELSE clean

RECURSIVE CleanAll(_, _)
CleanAll(clean, evs) ==
    IF Len(evs) = 0 THEN clean
    ELSE CleanAll(CleanStep(clean, evs[1]), Tail(evs))

ItemEventTypes == {"ITEM_PURCHASED", "ITEM_SOLD", "ITEM_UNDO"}

\* timeline.info.frames.flatMap(f => f.events).filter(...) for one participant
allItemEvents(events, participantId) ==
    SelectSeq(events, LAMBDA e : e.participantId = participantId /\ e.type \in ItemEventTypes)

skillLetter(slot) ==
    IF slot = 1 THEN "Q" ELSE IF slot = 2 THEN "W" ELSE IF slot = 3 THEN "E" ELSE "R"

skillOrderString(events, participantId) ==
    LET skillEvents == SelectSeq(events, LAMBDA e :
            /\ e.type = "SKILL_LEVEL_UP" /\ e.participantId = participantId
            /\ e.skillSlot > 0 /\ e.skillSlot <= 4)
    IN JoinStrs(MapSeq(skillEvents, LAMBDA e : skillLetter(e.skillSlot)), "-")

\* a mutant of extractTimelineData: a failed fetch is answered from the events
extractTimelineGuessed(events, participantId, ok) ==
    [skillOrderString |-> skillOrderString(events, participantId),
     cleanEvents |-> CleanAll(<<>>, allItemEvents(events, participantId))]

\* extractTimelineData: ok is whether RiotService.getMatchTimeline answered;
\* a failed fetch is swallowed and leaves both results empty
extractTimelineData(events, participantId, ok) ==
    IF ok
    THEN [skillOrderString |-> skillOrderString(events, participantId),
          cleanEvents |-> CleanAll(<<>>, allItemEvents(events, participantId))]
    ELSE [skillOrderString |-> "", cleanEvents |-> <<>>]


\* ------------------------------------------------------ reference data
\* RiotService.getChampionIdMap: champion id -> name (NULL: unknown id)
champMap(id) ==
    IF id = 103 THEN "Ahri"
    ELSE IF id = 238 THEN "Zed"
    ELSE IF id = 64 THEN "LeeSin"
    ELSE NULL

\* RiotService.getItemMap: item id -> {tags, into} (None: unknown id)
itemMap(id) ==
    IF id = 1001 THEN Some([tags |-> {"Boots"}, into |-> <<3006>>])
    ELSE IF id = 3006 THEN Some([tags |-> {"Boots"}, into |-> <<>>])
    ELSE IF id = 1038 THEN Some([tags |-> {"Damage"}, into |-> <<3031>>])
    ELSE IF id = 3031 THEN Some([tags |-> {"Damage", "CriticalStrike"}, into |-> <<>>])
    ELSE IF id = 3089 THEN Some([tags |-> {"SpellDamage"}, into |-> <<>>])
    ELSE None

IGNORED_ITEMS ==
    {3340, 3363, 3364, 3330, 2003, 2055, 2140, 2138, 2139,
     1054, 1055, 1056, 1082, 1083, 1101, 1102, 1103}

VISION_ITEMS == {3340, 3363, 3364, 3330, 2055, 2049, 2045, 2044}

\* --------------------------------------------------- per-participant mining
\* a mutant of the final items: the slots are not sorted
finalItemsUnsorted(p) ==
    SelectSeq(p.items, LAMBDA id : id # 0 /\ id \notin IGNORED_ITEMS)

\* [p.item0 .. p.item5].filter(id => id && id !== 0 && !IGNORED_ITEMS.has(id)),
\* sorted in place by the later finalItems.sort
finalItemsOf(p) ==
    SortAsc(SelectSeq(p.items, LAMBDA id : id # 0 /\ id \notin IGNORED_ITEMS))

\* a mutant of the filter: every item with an upgrade path is dropped, boots
\* or not
isCoreEligibleNoBoots(e, finalItemSet) ==
    IF e.type # "ITEM_PURCHASED" \/ e.itemId \notin finalItemSet THEN FALSE
    ELSE LET itemData == itemMap(e.itemId)
         IN IF itemData # None THEN ~(Len(The(itemData).into) > 0) ELSE TRUE

isCoreEligible(e, finalItemSet) ==
    IF e.type # "ITEM_PURCHASED" \/ e.itemId \notin finalItemSet THEN FALSE
    ELSE LET itemData == itemMap(e.itemId)
         IN IF itemData # None
            THEN LET isBoots == "Boots" \in The(itemData).tags
                 IN ~(~isBoots /\ Len(The(itemData).into) > 0)
            ELSE TRUE

uniqueBuildPathOf(p, cleanEvents) ==
    LET finalItemSet == Range(finalItemsOf(p))
        buildPath == MapSeq(SelectSeq(cleanEvents, LAMBDA e : isCoreEligible(e, finalItemSet)),
                            LAMBDA e : e.itemId)
    IN Uniq(buildPath)

coreKeyOf(unique) ==
    "core_" \o JoinInts(SubSeq(unique, 1, IF Len(unique) < 3 THEN Len(unique) ELSE 3), "-")

\* a mutant of the slot keys: the index is used as a position that counts
\* from one, so slot N names item N - 1 of the order
slotKeysOffByOne(items, unique, win) ==
    LET at(m, idx) ==
            IF Len(unique) >= idx + 1
            THEN Bump(m, coreKeyOf(unique) \o "_slot" \o ToString(idx + 1) \o "_"
                             \o ToString(unique[idx]), win)
            ELSE m
    IN at(at(at(items, 3), 4), 5)

\* [3, 4, 5].forEach(idx => ...)
slotKeys(items, unique, win) ==
    LET at(m, idx) ==
            IF Len(unique) >= idx + 1
            THEN Bump(m, coreKeyOf(unique) \o "_slot" \o ToString(idx + 1) \o "_"
                             \o ToString(unique[idx + 1]), win)
            ELSE m
    IN at(at(at(items, 3), 4), 5)

\* a mutant of the starting events: the time of the purchase is not looked at
startingEventsAnyTime(cleanEvents) ==
    SelectSeq(cleanEvents, LAMBDA e :
        e.type = "ITEM_PURCHASED" /\ e.itemId \notin VISION_ITEMS)

\* cleanEvents.filter(e => e.type === 'ITEM_PURCHASED' && e.timestamp <= 60000
\*                         && !VISION_ITEMS.has(e.itemId))
startingEventsOf(cleanEvents) ==
    SelectSeq(cleanEvents, LAMBDA e :
        e.type = "ITEM_PURCHASED" /\ e.timestamp <= 60000 /\ e.itemId \notin VISION_ITEMS)

extractItems(p, cleanEvents) ==
    LET finalItems == finalItemsOf(p)
        finalBuildKey == JoinInts(finalItems, "-")
        i0 == IF finalBuildKey # "" THEN Put(EmptyMap, finalBuildKey, p.win) ELSE EmptyMap
        i1 == BumpAll(i0, MapSeq(finalItems, LAMBDA id : ToString(id)), p.win)
        startingEvents == startingEventsOf(cleanEvents)
        i2 == IF Len(startingEvents) > 0
              THEN Bump(i1, "start_" \o JoinInts(SortAsc(MapSeq(startingEvents,
                                 LAMBDA e : e.itemId)), "-"), p.win)
              ELSE i1
        unique == uniqueBuildPathOf(p, cleanEvents)
        i3 == IF Len(unique) >= 1
              THEN slotKeys(Bump(i2, coreKeyOf(unique), p.win), unique, p.win)
              ELSE i2
    IN IF Len(cleanEvents) > 0 THEN i3 ELSE i1

\* perks.find(s => s.description === d): the first such style, if any
findStyle(perks, d) ==
    IF \E i \in 1..Len(perks) : perks[i].description = d
    THEN Some(perks[CHOOSE i \in 1..Len(perks) :
                       /\ perks[i].description = d
                       /\ \A q \in 1..(i - 1) : perks[q].description # d])
    ELSE None

RECURSIVE Concat(_)
Concat(ss) == IF Len(ss) = 0 THEN <<>> ELSE ss[1] \o Concat(Tail(ss))

extractRunes(p) ==
    LET perks == p.perks.styles
        statPerks == p.perks.statPerks
        primaryStyle == findStyle(perks, "primaryStyle")
        subStyle == findStyle(perks, "subStyle")
        stats == SelectSeq(<<statPerks.offense, statPerks.flex, statPerks.defense>>,
                           LAMBDA id : id # 0)
        r0 == IF primaryStyle # None /\ subStyle # None
              THEN Put(EmptyMap,
                       "page_" \o ToString(The(primaryStyle).style) \o "-"
                           \o ToString(The(subStyle).style)
                           \o "-" \o JoinInts(The(primaryStyle).selections, "-")
                           \o "-" \o JoinInts(The(subStyle).selections, "-")
                           \o "-" \o JoinInts(stats, "-"),
                       p.win)
              ELSE EmptyMap
        r1 == BumpAll(r0, MapSeq(Concat(MapSeq(perks, LAMBDA s : s.selections)),
                                 LAMBDA id : ToString(id)), p.win)
    IN BumpAll(r1, MapSeq(stats, LAMBDA id : ToString(id)), p.win)

extractSpells(p) ==
    LET s0 == IF p.summoner1Id # 0 THEN Put(EmptyMap, ToString(p.summoner1Id), p.win)
              ELSE EmptyMap
    IN IF p.summoner2Id # 0 THEN Bump(s0, ToString(p.summoner2Id), p.win) ELSE s0

extractSkillOrder(skillOrder, win) ==
    IF skillOrder # "" THEN Put(EmptyMap, skillOrder, win) ELSE EmptyMap

\* ------------------------------------------------------------ match data
\* The matches the Riot API can return for the ids the model processes.
MatchIds == {"EUW1_1", "EUW1_2", "EUW1_3"}

Tiers == {"CHALLENGER"}

Perks(primary, sub, offense, flex, defense) ==
    [styles |-> << [description |-> "primaryStyle", style |-> 8100, selections |-> <<primary>>],
                   [description |-> "subStyle", style |-> 8300, selections |-> <<sub>>] >>,
     statPerks |-> [offense |-> offense, flex |-> flex, defense |-> defense]]

Participant(pid, team, pos, champ, win, kills, items, s1, s2, perks) ==
    [participantId |-> pid, teamId |-> team, teamPosition |-> pos, championName |-> champ,
     win |-> win, kills |-> kills, deaths |-> pid, assists |-> kills + 1,
     totalMinionsKilled |-> 100 + pid, neutralMinionsKilled |-> 0,
     items |-> items, summoner1Id |-> s1, summoner2Id |-> s2, perks |-> perks]

ItemEvent(type, pid, ts, itemId, beforeId, afterId) ==
    [type |-> type, participantId |-> pid, timestamp |-> ts, itemId |-> itemId,
     beforeId |-> beforeId, afterId |-> afterId, skillSlot |-> 0]

SkillEvent(pid, slot) ==
    [type |-> "SKILL_LEVEL_UP", participantId |-> pid, timestamp |-> 0, itemId |-> 0,
     beforeId |-> 0, afterId |-> 0, skillSlot |-> slot]

\* match.info of RiotService.getMatchDetails; durationBucket is what
\* getDurationBucket(info.gameDuration) answers for the match
matchInfo(matchId) ==
    IF matchId = "EUW1_1"
    THEN [gameVersion |-> <<"14", "1", "555", "1">>, gameDuration |-> 1800,
          durationBucket |-> "MEDIUM",
          teams |-> << [teamId |-> 100, bans |-> << [championId |-> 238], [championId |-> -1] >>],
                       [teamId |-> 200, bans |-> << [championId |-> 238] >>] >>,
          participants |-> <<
              Participant(1, 100, "MIDDLE", "Ahri", TRUE, 7, <<3089, 3006, 0, 0, 0, 3340>>,
                          4, 14, Perks(8112, 8345, 5008, 5008, 5001)),
              Participant(2, 100, "JUNGLE", "LeeSin", TRUE, 3, <<3006, 0, 0, 0, 0, 0>>,
                          11, 4, Perks(8010, 8345, 5005, 5008, 5001)),
              Participant(3, 200, "MIDDLE", "Zed", FALSE, 4, <<3031, 3031, 0, 0, 0, 0>>,
                          4, 14, Perks(8112, 8347, 5008, 5010, 5001)) >>]
    ELSE IF matchId = "EUW1_3"
    THEN [gameVersion |-> <<"14", "1", "557", "3">>, gameDuration |-> 1600,
          durationBucket |-> "MEDIUM",
          teams |-> << [teamId |-> 100, bans |-> << [championId |-> 103] >>],
                       [teamId |-> 200, bans |-> << >>] >>,
          participants |-> <<
              Participant(1, 100, "MIDDLE", "Ahri", TRUE, 5, <<3089, 3006, 0, 0, 0, 0>>,
                          4, 14, Perks(8112, 8345, 5008, 5008, 5001)),
              Participant(2, 100, "TOP", "Zed", TRUE, 2, <<3031, 0, 0, 0, 0, 0>>,
                          4, 12, Perks(8010, 8347, 5005, 5008, 5001)),
              Participant(3, 200, "NONE", "LeeSin", FALSE, 1, <<3006, 0, 0, 0, 0, 0>>,
                          11, 4, Perks(8010, 8345, 5005, 5008, 5001)),
              Participant(4, 200, "Invalid", "Zed", FALSE, 0, <<0, 0, 0, 0, 0, 0>>,
                          4, 14, Perks(8112, 8347, 5008, 5010, 5001)) >>]
    ELSE [gameVersion |-> <<"14", "1", "556", "2">>, gameDuration |-> 1500,
          durationBucket |-> "MEDIUM",
          teams |-> << [teamId |-> 100, bans |-> << [championId |-> 999] >>],
                       [teamId |-> 200, bans |-> << [championId |-> 103] >>] >>,
          participants |-> <<
              Participant(1, 100, "MIDDLE", "Ahri", FALSE, 2, <<3089, 0, 0, 0, 0, 0>>,
                          4, 12, Perks(8112, 8345, 5008, 5008, 5001)),
              Participant(2, 100, "", "LeeSin", FALSE, 1, <<3006, 0, 0, 0, 0, 0>>,
                          11, 4, Perks(8010, 8345, 5005, 5008, 5001)),
              Participant(3, 200, "MIDDLE", "Zed", TRUE, 9, <<3031, 3006, 0, 0, 0, 0>>,
                          4, 14, Perks(8112, 8347, 5008, 5010, 5001)) >>]

\* timeline.info.frames.flatMap(f => f.events) of RiotService.getMatchTimeline
matchTimeline(matchId) ==
    IF matchId = "EUW1_1"
    THEN << ItemEvent("ITEM_PURCHASED", 1, 5000, 1001, 0, 0),
            ItemEvent("ITEM_PURCHASED", 1, 6000, 2003, 0, 0),
            ItemEvent("ITEM_UNDO", 1, 7000, 0, 2003, 0),
            SkillEvent(1, 1), SkillEvent(1, 3),
            ItemEvent("ITEM_PURCHASED", 3, 4000, 1038, 0, 0),
            ItemEvent("ITEM_PURCHASED", 1, 400000, 3006, 0, 0),
            ItemEvent("ITEM_PURCHASED", 1, 900000, 3089, 0, 0),
            ItemEvent("ITEM_PURCHASED", 3, 800000, 3031, 0, 0),
            SkillEvent(3, 1) >>
    ELSE IF matchId = "EUW1_3"
    THEN << ItemEvent("ITEM_PURCHASED", 1, 5000, 1001, 0, 0),
            SkillEvent(1, 1), SkillEvent(2, 3),
            ItemEvent("ITEM_PURCHASED", 1, 800000, 3089, 0, 0) >>
    ELSE << ItemEvent("ITEM_PURCHASED", 1, 5000, 1001, 0, 0),
            SkillEvent(1, 1), SkillEvent(1, 2),
            ItemEvent("ITEM_PURCHASED", 1, 900000, 3089, 0, 0),
            ItemEvent("ITEM_PURCHASED", 3, 700000, 3006, 0, 0),
            ItemEvent("ITEM_PURCHASED", 3, 800000, 3031, 0, 0) >>

\* info.gameVersion.split('.').slice(0, 2).join('.')
patchOf(info) ==
    JoinStrs(SubSeq(info.gameVersion, 1, IF Len(info.gameVersion) < 2
                                         THEN Len(info.gameVersion) ELSE 2), ".")

\* the ban entries of info.teams in the order processBans visits them
banEntries(info) == Concat(MapSeq(info.teams, LAMBDA team : team.bans))

\* ------------------------------------------------------------------ state
VARIABLES
    scannedMatch,   \* prisma.scannedMatch: the set of marker rows [id, patch, tier]
    championStat,   \* prisma.championStat: unique key -> row
    matchupStat,    \* prisma.matchupStat: unique key -> row
    duoStat,        \* prisma.duoStat: unique key -> row
    calls,          \* the processMatch calls: position and locals of each
    runs,           \* processMatch invocations so far
    tlFailures,     \* timeline fetches that failed so far
    snap,           \* history: the buckets as they were when each call began
    attempted,      \* history: the match ids processMatch was called for
    allItemEventsV, \* cleaning loop: the participant's item events
    evIdx,          \* cleaning loop: events consumed so far
    cleanEvents,    \* cleaning loop: the clean list
    mergeIn,        \* merge order: the bucket row (if any) and the two contributions
    mergeStep,      \* merge order: contributions applied so far
    mergeL,         \* merge order: the row after D1 then D2
    mergeR,         \* merge order: the row after D2 then D1
    mergeAgg,       \* merge order: aggregateRawStats of the rows in both orders
    fnArgs,         \* the pure function applied: its arguments
    fnPc,           \* the pure function applied: the step it is at
    fnOut           \* the pure function applied: its locals and results so far

storeVars ==
    <<scannedMatch, championStat, matchupStat, duoStat, calls, runs, tlFailures, snap, attempted>>
cleanVars == <<allItemEventsV, evIdx, cleanEvents>>
mergeVars == <<mergeIn, mergeStep, mergeL, mergeR, mergeAgg>>
pureVars == <<fnArgs, fnPc, fnOut>>
vars == <<storeVars, cleanVars, mergeVars, pureVars>>

Buckets == [champion |-> championStat, matchup |-> matchupStat, duo |-> duoStat]

\* ------------------------------------------------------------- store rows
\* the row prisma creates for a ban: counters and maps at their defaults
banCreate == [matches |-> 0, wins |-> 0, bans |-> 1, totalKills |-> 0, totalDeaths |-> 0,
              totalAssists |-> 0, totalCs |-> 0, totalDuration |-> 0,
              items |-> EmptyMap, runes |-> EmptyMap, spells |-> EmptyMap,
              skillOrder |-> EmptyMap]

banUpdate(row) == [row EXCEPT !.bans = @ + 1]

csOf(p) == p.totalMinionsKilled + p.neutralMinionsKilled

\* what processSingleParticipant derives from a participant and its timeline
contributionOf(p, info, tl) ==
    [win |-> p.win, kills |-> p.kills, deaths |-> p.deaths, assists |-> p.assists,
     cs |-> csOf(p), duration |-> info.gameDuration,
     items |-> extractItems(p, tl.cleanEvents),
     runes |-> extractRunes(p),
     spells |-> extractSpells(p),
     skillOrder |-> extractSkillOrder(tl.skillOrderString, p.win)]

\* prisma.championStat.create of upsertChampionStats
championCreate(d) ==
    [matches |-> 1, wins |-> WinInc(d.win), bans |-> 0, totalKills |-> d.kills,
     totalDeaths |-> d.deaths, totalAssists |-> d.assists, totalCs |-> d.cs,
     totalDuration |-> d.duration,
     items |-> d.items, runes |-> d.runes, spells |-> d.spells, skillOrder |-> d.skillOrder]

\* a mutant of the update: the win flag is counted in matches and every
\* participant in wins
championUpdateSwapped(row, existingStat, d) ==
    [row EXCEPT !.matches = @ + WinInc(d.win), !.wins = @ + 1,
                !.items = merge(existingStat.items, d.items)]

\* prisma.championStat.update of upsertChampionStats: the counters are
\* incremented in the row as it is now, the four maps are replaced by the
\* merge into the maps of existingStat, the row as it was read
championUpdate(row, existingStat, d) ==
    [row EXCEPT !.matches = @ + 1, !.wins = @ + WinInc(d.win),
                !.totalKills = @ + d.kills, !.totalDeaths = @ + d.deaths,
                !.totalAssists = @ + d.assists, !.totalCs = @ + d.cs,
                !.totalDuration = @ + d.duration,
                !.items = merge(existingStat.items, d.items),
                !.runes = merge(existingStat.runes, d.runes),
                !.spells = merge(existingStat.spells, d.spells),
                !.skillOrder = merge(existingStat.skillOrder, d.skillOrder)]

matchupCreate(d) ==
    [matches |-> 1, wins |-> WinInc(d.win), totalKills |-> d.kills, totalDeaths |-> d.deaths,
     totalAssists |-> d.assists, totalCs |-> d.cs, totalDuration |-> d.duration]

matchupUpdate(row, d) ==
    [row EXCEPT !.matches = @ + 1, !.wins = @ + WinInc(d.win),
                !.totalKills = @ + d.kills, !.totalDeaths = @ + d.deaths,
                !.totalAssists = @ + d.assists, !.totalCs = @ + d.cs,
                !.totalDuration = @ + d.duration]

duoCreate(win) == [matches |-> 1, wins |-> WinInc(win)]

duoUpdate(row, win) == [row EXCEPT !.matches = @ + 1, !.wins = @ + WinInc(win)]

\* table with the row at key set to val
WithRow(table, key, val) ==
    [k \in DOMAIN table \cup {key} |-> IF k = key THEN val ELSE table[k]]

\* ---------------------------------------------------------- keys and lookups
banKey(champName, tier, info) == <<champName, "ALL", tier, patchOf(info), info.durationBucket>>

championKey(p, role, tier, info) ==
    <<p.championName, role, tier, patchOf(info), info.durationBucket>>

matchupKey(p, opponent, role, tier, info) ==
    <<p.championName, opponent.championName, role, tier, patchOf(info), info.durationBucket>>

\* extractTimelineData's initial results
NoTimeline == [skillOrderString |-> "", cleanEvents |-> <<>>]

duoKey(p, mate, role, mateRole, tier, info) ==
    <<p.championName, mate.championName, role, mateRole, tier, patchOf(info)>>

\* a mutant of the lookup: the team of the opponent is not looked at
opponentOfAnyTeam(p, info, role) ==
    LET hit(op) == normalizeRole(op.teamPosition) = role
        ps == info.participants
    IN IF \E i \in 1..Len(ps) : hit(ps[i])
       THEN Some(ps[CHOOSE i \in 1..Len(ps) : hit(ps[i]) /\ \A q \in 1..(i - 1) : ~hit(ps[q])])
       ELSE None

\* info.participants.find(op => normalizeRole(op.teamPosition) === role && op.teamId !== p.teamId)
opponentOf(p, info, role) ==
    LET hit(op) == normalizeRole(op.teamPosition) = role /\ op.teamId # p.teamId
        ps == info.participants
    IN IF \E i \in 1..Len(ps) : hit(ps[i])
       THEN Some(ps[CHOOSE i \in 1..Len(ps) : hit(ps[i]) /\ \A q \in 1..(i - 1) : ~hit(ps[q])])
       ELSE None

teamMatesOf(p, info) ==
    SelectSeq(info.participants,
              LAMBDA tm : tm.teamId = p.teamId /\ tm.participantId # p.participantId)

\* a mutant of the ban filter: an id the champion map does not know is counted
banCountedUnknown(ban) == ban.championId # -1

\* if (ban.championId !== -1) { const champName = champMap[ban.championId]; if (champName) ...
banCounted(ban) == ban.championId # -1 /\ champMap(ban.championId) # NULL

\* prisma.championStat.upsert of processBans
banUpsert(table, ban, tier, info) ==
    LET key == banKey(champMap(ban.championId), tier, info)
    IN WithRow(table, key, IF key \in DOMAIN table THEN banUpdate(table[key]) ELSE banCreate)

\* prisma.matchupStat.upsert of upsertMatchupStats
matchupUpsert(table, p, opponent, role, tier, info, d) ==
    LET key == matchupKey(p, opponent, role, tier, info)
    IN WithRow(table, key,
               IF key \in DOMAIN table THEN matchupUpdate(table[key], d) ELSE matchupCreate(d))

\* prisma.duoStat.upsert of upsertDuoStats
duoUpsert(table, p, mate, role, mateRole, tier, info) ==
    LET key == duoKey(p, mate, role, mateRole, tier, info)
    IN WithRow(table, key,
               IF key \in DOMAIN table THEN duoUpdate(table[key], p.win) ELSE duoCreate(p.win))

\* a mutant of the marker lookup: the marker is never found
findScannedNever(scanned, matchId) == FALSE

\* prisma.scannedMatch.findUnique({ where: { id: matchId } }) found a row
findScanned(scanned, matchId) == \E r \in scanned : r.id = matchId

\* ------------------------------------------------------------ processMatch
IdleCall ==
    [pc |-> "idle", matchId |-> NULL, tier |-> NULL, status |-> "none",
     i |-> 0, j |-> 0, k |-> 0, tl |-> NoTimeline, existingStat |-> None,
     tlOk |-> <<>>, log |-> {}]

EmptyTable == <<>>

infoOf(c) == matchInfo(calls[c].matchId)

\* the call returns or throws: its locals are gone, its result stays
Ended(call, status) ==
    [call EXCEPT !.pc = "idle", !.status = status, !.i = 0, !.j = 0, !.k = 0,
                 !.tl = NoTimeline, !.existingStat = None,
                 !.tlOk = IF status = "processed" THEN @ ELSE <<>>]

\* a mutant of the participant loop: the marker is written after the first
\* participant
participantOrMarkEarly(info, j) == IF j <= 1 THEN "part" ELSE "mark"

\* `for (const p of info.participants)` then `prisma.scannedMatch.create`
participantOrMark(info, j) == IF j <= Len(info.participants) THEN "part" ELSE "mark"

ToParticipant(call, info, j) ==
    [call EXCEPT !.pc = participantOrMark(info, j), !.j = j, !.k = 0,
                 !.tl = NoTimeline, !.existingStat = None]

ToBan(call, info, i) ==
    IF i <= Len(banEntries(info)) THEN [call EXCEPT !.pc = "bans", !.i = i]
    ELSE ToParticipant(call, info, 1)

StoreFrame == UNCHANGED <<cleanVars, mergeVars, pureVars>>

\* processMatch is called; the call takes the first free slot
Start(c) ==
    /\ calls[c].pc = "idle"
    /\ \A d \in Calls : d < c => calls[d].pc # "idle"
    /\ runs < MaxRuns
    /\ \E m \in MatchIds, t \in Tiers :
          calls' = [calls EXCEPT ![c] =
                       [IdleCall EXCEPT !.pc = "check", !.matchId = m, !.tier = t,
                                        !.status = "running"]]
    /\ runs' = runs + 1
    /\ snap' = [snap EXCEPT ![c] = Buckets]
    /\ attempted' = attempted \cup {calls'[c].matchId}
    /\ UNCHANGED <<scannedMatch, championStat, matchupStat, duoStat, tlFailures>>
    /\ StoreFrame

\* const existing = await prisma.scannedMatch.findUnique(...); if (existing) return skipped
CheckScanned(c) ==
    /\ calls[c].pc = "check"
    /\ calls' = [calls EXCEPT ![c] =
                    IF findScanned(scannedMatch, calls[c].matchId)
                    THEN Ended(@, "skipped")
                    ELSE [@ EXCEPT !.pc = "fetch"]]
    /\ UNCHANGED <<scannedMatch, championStat, matchupStat, duoStat, runs, tlFailures, snap, attempted>>
    /\ StoreFrame

\* match details, champion map and item map are fetched
FetchMatch(c) ==
    /\ calls[c].pc = "fetch"
    /\ calls' = [calls EXCEPT ![c] = ToBan(@, infoOf(c), 1)]
    /\ UNCHANGED <<scannedMatch, championStat, matchupStat, duoStat, runs, tlFailures, snap, attempted>>
    /\ StoreFrame

\* processBans: one ban entry
ProcessBan(c) ==
    /\ calls[c].pc = "bans"
    /\ LET call == calls[c]
           info == infoOf(c)
           ban == banEntries(info)[call.i]
           counted == banCounted(ban)
       IN /\ championStat' =
                IF counted THEN banUpsert(championStat, ban, call.tier, info)
                ELSE championStat
          /\ calls' = [calls EXCEPT ![c] =
                          ToBan([@ EXCEPT !.log = IF counted THEN @ \cup {<<"ban", call.i>>}
                                                  ELSE @],
                                info, call.i + 1)]
    /\ UNCHANGED <<scannedMatch, matchupStat, duoStat, runs, tlFailures, snap, attempted>>
    /\ StoreFrame

\* processSingleParticipant up to the timeline fetch
ParticipantBegin(c) ==
    /\ calls[c].pc = "part"
    /\ LET call == calls[c]
           info == infoOf(c)
           p == info.participants[call.j]
           role == normalizeRole(p.teamPosition)
       IN IF RoleExcluded(role)
          THEN /\ calls' = [calls EXCEPT ![c] = ToParticipant(@, info, call.j + 1)]
               /\ UNCHANGED tlFailures
          ELSE \E ok \in BOOLEAN :
                  /\ ok \/ tlFailures < MaxTimelineFailures
                  /\ tlFailures' = IF ok THEN tlFailures ELSE tlFailures + 1
                  /\ calls' = [calls EXCEPT ![c] =
                         [@ EXCEPT !.pc = "champFind",
                                   !.tl = extractTimelineData(matchTimeline(call.matchId),
                                                              p.participantId, ok),
                                   !.tlOk = @ @@ (call.j :> ok)]]
    /\ UNCHANGED <<scannedMatch, championStat, matchupStat, duoStat, runs, snap, attempted>>
    /\ StoreFrame

\* upsertChampionStats: const existingStat = await prisma.championStat.findUnique(...)
ChampionFind(c) ==
    /\ calls[c].pc = "champFind"
    /\ LET call == calls[c]
           info == infoOf(c)
           p == info.participants[call.j]
           key == championKey(p, normalizeRole(p.teamPosition), call.tier, info)
       IN calls' = [calls EXCEPT ![c] =
                       [@ EXCEPT !.pc = "champWrite",
                                 !.existingStat = IF key \in DOMAIN championStat
                                                  THEN Some(championStat[key]) ELSE None]]
    /\ UNCHANGED <<scannedMatch, championStat, matchupStat, duoStat, runs, tlFailures, snap, attempted>>
    /\ StoreFrame

\* upsertChampionStats: update of the row that was found, else create, which
\* the unique key rejects when the row exists by now
ChampionWrite(c) ==
    /\ calls[c].pc = "champWrite"
    /\ LET call == calls[c]
           info == infoOf(c)
           p == info.participants[call.j]
           key == championKey(p, normalizeRole(p.teamPosition), call.tier, info)
           d == contributionOf(p, info, call.tl)
       IN IF call.existingStat = None /\ key \in DOMAIN championStat
          THEN /\ calls' = [calls EXCEPT ![c] = Ended(@, "failed")]
               /\ UNCHANGED championStat
          ELSE /\ championStat' =
                      WithRow(championStat, key,
                              IF call.existingStat # None
                              THEN championUpdate(championStat[key], The(call.existingStat), d)
                              ELSE championCreate(d))
               /\ calls' = [calls EXCEPT ![c] =
                               [@ EXCEPT !.pc = "matchup", !.existingStat = None,
                                         !.log = @ \cup {<<"champion", call.j>>}]]
    /\ UNCHANGED <<scannedMatch, matchupStat, duoStat, runs, tlFailures, snap, attempted>>
    /\ StoreFrame

\* upsertMatchupStats
MatchupUpsert(c) ==
    /\ calls[c].pc = "matchup"
    /\ LET call == calls[c]
           info == infoOf(c)
           p == info.participants[call.j]
           role == normalizeRole(p.teamPosition)
           opponent == opponentOf(p, info, role)
           d == contributionOf(p, info, call.tl)
           logged == [call EXCEPT !.log = IF opponent # None
                                          THEN @ \cup {<<"matchup", call.j>>} ELSE @]
       IN /\ matchupStat' =
                IF opponent # None
                THEN matchupUpsert(matchupStat, p, The(opponent), role, call.tier, info, d)
                ELSE matchupStat
          /\ calls' = [calls EXCEPT ![c] =
                          IF Len(teamMatesOf(p, info)) >= 1
                          THEN [logged EXCEPT !.pc = "duo", !.k = 1]
                          ELSE ToParticipant(logged, info, call.j + 1)]
    /\ UNCHANGED <<scannedMatch, championStat, duoStat, runs, tlFailures, snap, attempted>>
    /\ StoreFrame

\* upsertDuoStats: one teammate
DuoUpsert(c) ==
    /\ calls[c].pc = "duo"
    /\ LET call == calls[c]
           info == infoOf(c)
           p == info.participants[call.j]
           role == normalizeRole(p.teamPosition)
           teamMates == teamMatesOf(p, info)
           mate == teamMates[call.k]
           mateRole == normalizeRole(mate.teamPosition)
           counted == isDuo(role, mateRole)
           logged == [call EXCEPT !.log = IF counted
                                          THEN @ \cup {<<"duo", call.j, call.k>>} ELSE @]
       IN /\ duoStat' =
                IF counted
                THEN duoUpsert(duoStat, p, mate, role, mateRole, call.tier, info)
                ELSE duoStat
          /\ calls' = [calls EXCEPT ![c] =
                          IF call.k + 1 <= Len(teamMates)
                          THEN [logged EXCEPT !.k = call.k + 1]
                          ELSE ToParticipant(logged, info, call.j + 1)]
    /\ UNCHANGED <<scannedMatch, championStat, matchupStat, runs, tlFailures, snap, attempted>>
    /\ StoreFrame

\* await prisma.scannedMatch.create(...): the primary key rejects a second row
MarkScanned(c) ==
    /\ calls[c].pc = "mark"
    /\ LET call == calls[c]
           info == infoOf(c)
       IN IF \E r \in scannedMatch : r.id = call.matchId
          THEN /\ calls' = [calls EXCEPT ![c] = Ended(@, "failed")]
               /\ UNCHANGED scannedMatch
          ELSE /\ scannedMatch' = scannedMatch \cup
                      {[id |-> call.matchId, patch |-> patchOf(info), tier |-> call.tier]}
               /\ calls' = [calls EXCEPT ![c] =
                               Ended([@ EXCEPT !.log = @ \cup {<<"mark">>}], "processed")]
    /\ UNCHANGED <<championStat, matchupStat, duoStat, runs, tlFailures, snap, attempted>>
    /\ StoreFrame

\* the awaited calls that reject: the store calls and the fetches of
\* processMatch (the timeline fetch is caught inside extractTimelineData)
ThrowPoints == {"check", "fetch", "bans", "champFind", "champWrite", "matchup", "duo", "mark"}

\* an awaited call rejects: catch (error) { console.error(...); throw error; }
Throw(c) ==
    /\ calls[c].pc \in ThrowPoints
    /\ calls' = [calls EXCEPT ![c] = Ended(@, "failed")]
    /\ UNCHANGED <<scannedMatch, championStat, matchupStat, duoStat, runs, tlFailures, snap, attempted>>
    /\ StoreFrame

\* a call is made while no other call is running
StartAlone(c) ==
    /\ \A d \in Calls \ {c} : calls[d].pc = "idle"
    /\ Start(c)

Run(c) ==
    \/ CheckScanned(c)
    \/ FetchMatch(c)
    \/ ProcessBan(c)
    \/ ParticipantBegin(c)
    \/ ChampionFind(c)
    \/ ChampionWrite(c)
    \/ MatchupUpsert(c)
    \/ DuoUpsert(c)
    \/ MarkScanned(c)

InitStore ==
    /\ scannedMatch = {}
    /\ championStat = EmptyTable
    /\ matchupStat = EmptyTable
    /\ duoStat = EmptyTable
    /\ calls = [c \in Calls |-> IdleCall]
    /\ runs = 0
    /\ tlFailures = 0
    /\ snap = [c \in Calls |-> [champion |-> EmptyTable, matchup |-> EmptyTable,
                                 duo |-> EmptyTable]]
    /\ attempted = {}

InitCleanIdle ==
    /\ allItemEventsV = <<>>
    /\ evIdx = 0
    /\ cleanEvents = <<>>

InitMergeIdle ==
    /\ mergeIn = [B |-> None, D1 |-> None, D2 |-> None]
    /\ mergeStep = 0
    /\ mergeL = None
    /\ mergeR = None
    /\ mergeAgg = None

InitPureIdle ==
    /\ fnArgs = <<>>
    /\ fnPc = "none"
    /\ fnOut = <<>>

Init == InitStore /\ InitCleanIdle /\ InitMergeIdle /\ InitPureIdle

\* concurrent calls, any awaited call may reject
Next == \E c \in Calls : Start(c) \/ Run(c) \/ Throw(c)

Spec == Init /\ [][Next]_vars

\* one call at a time (the seeding of one match after the other)
NextSeq == \E c \in Calls : StartAlone(c) \/ Run(c) \/ Throw(c)

SpecSeq == Init /\ [][NextSeq]_vars

\* concurrent calls against a store and an API that answer every call
NextConc == \E c \in Calls : Start(c) \/ Run(c)

SpecConc == Init /\ [][NextConc]_vars

\* ------------------------------------------- the cleaning loop, step by step
\* the item ids of the event streams
StreamItems == {1001, 3006}

\* what an undo event may carry in beforeId and afterId
UndoIds == StreamItems \cup {0}

\* the item events the timeline can hold for the participant
StreamEvents ==
    {ItemEvent(t, 1, 5000, id, 0, 0) : t \in {"ITEM_PURCHASED", "ITEM_SOLD"}, id \in StreamItems}
    \cup {ItemEvent("ITEM_UNDO", 1, 5000, 0, b, a) : b \in UndoIds, a \in UndoIds}

RECURSIVE SeqsUpTo(_, _)
SeqsUpTo(S, n) ==
    IF n = 0 THEN {<<>>}
    ELSE LET shorter == SeqsUpTo(S, n - 1)
         IN shorter \cup {Append(q, e) : q \in {r \in shorter : Len(r) = n - 1}, e \in S}

CleanFrame == UNCHANGED <<storeVars, mergeVars, pureVars>>

\* ITEM_PURCHASED or ITEM_SOLD: cleanEvents.push(ev)
CleanPush ==
    /\ evIdx < Len(allItemEventsV)
    /\ allItemEventsV[evIdx + 1].type \in {"ITEM_PURCHASED", "ITEM_SOLD"}
    /\ cleanEvents' = CleanStep(cleanEvents, allItemEventsV[evIdx + 1])
    /\ evIdx' = evIdx + 1
    /\ UNCHANGED allItemEventsV
    /\ CleanFrame

\* ITEM_UNDO: the last clean event is popped when it matches
CleanUndo ==
    /\ evIdx < Len(allItemEventsV)
    /\ allItemEventsV[evIdx + 1].type = "ITEM_UNDO"
    /\ cleanEvents' = CleanStep(cleanEvents, allItemEventsV[evIdx + 1])
    /\ evIdx' = evIdx + 1
    /\ UNCHANGED allItemEventsV
    /\ CleanFrame

InitClean ==
    /\ InitStore
    /\ InitMergeIdle
    /\ InitPureIdle
    /\ allItemEventsV \in SeqsUpTo(StreamEvents, MaxEvents)
    /\ evIdx = 0
    /\ cleanEvents = <<>>

NextClean == CleanPush \/ CleanUndo

SpecClean == InitClean /\ [][NextClean]_vars

\* ------------------------------------- merging contributions in both orders
\* upsertChampionStats with nothing between its find and its write
upsertChampionStats(row, d) ==
    IF row # None THEN Some(championUpdate(The(row), The(row), d))
    ELSE Some(championCreate(d))

RECURSIVE aggregateFrom(_, _)
aggregateFrom(aggregated, stats) ==
    IF Len(stats) = 0 THEN aggregated
    ELSE aggregateFrom(
             [matches |-> aggregated.matches + stats[1].matches,
              wins |-> aggregated.wins + stats[1].wins,
              items |-> mergeDeepStats(aggregated.items, stats[1].items),
              runes |-> mergeDeepStats(aggregated.runes, stats[1].runes),
              spells |-> mergeDeepStats(aggregated.spells, stats[1].spells),
              skillOrders |-> mergeDeepStats(aggregated.skillOrders, stats[1].skillOrder)],
             Tail(stats))

\* ChampionDetailService.aggregateRawStats
aggregateRawStats(stats) ==
    aggregateFrom([matches |-> 0, wins |-> 0, items |-> EmptyMap, runes |-> EmptyMap,
                   spells |-> EmptyMap, skillOrders |-> EmptyMap], stats)

\* the contributions of the participants of the matches, with and without timeline
Deltas ==
    UNION {{contributionOf(matchInfo(m).participants[n], matchInfo(m),
                           extractTimelineData(matchTimeline(m),
                                               matchInfo(m).participants[n].participantId, ok)) :
               n \in 1..Len(matchInfo(m).participants), ok \in BOOLEAN} : m \in MatchIds}

\* the bucket before the two contributions: absent, created by a ban, or
\* created by an earlier contribution
MergeBases == {None, Some(banCreate)} \cup {Some(championCreate(d)) : d \in Deltas}

InitMerge ==
    /\ InitStore
    /\ InitCleanIdle
    /\ InitPureIdle
    /\ \E b \in MergeBases, d1 \in Deltas, d2 \in Deltas :
          mergeIn = [B |-> b, D1 |-> Some(d1), D2 |-> Some(d2)]
    /\ mergeStep = 0
    /\ mergeL = mergeIn.B
    /\ mergeR = mergeIn.B
    /\ mergeAgg = None

MergeFrame == UNCHANGED <<storeVars, cleanVars, pureVars>>

MergeFirst ==
    /\ mergeStep = 0
    /\ mergeL' = upsertChampionStats(mergeL, The(mergeIn.D1))
    /\ mergeR' = upsertChampionStats(mergeR, The(mergeIn.D2))
    /\ mergeStep' = 1
    /\ UNCHANGED <<mergeIn, mergeAgg>>
    /\ MergeFrame

MergeSecond ==
    /\ mergeStep = 1
    /\ mergeL' = upsertChampionStats(mergeL, The(mergeIn.D2))
    /\ mergeR' = upsertChampionStats(mergeR, The(mergeIn.D1))
    /\ mergeStep' = 2
    /\ UNCHANGED <<mergeIn, mergeAgg>>
    /\ MergeFrame

\* the tier-list page sums the row the contributions went to with the row of
\* another tier, in both orders
MergeAggregate ==
    /\ mergeStep = 2
    /\ LET other == championCreate(The(mergeIn.D1))
       IN mergeAgg' = Some(<<aggregateRawStats(<<The(mergeL), other>>),
                             aggregateRawStats(<<other, The(mergeL)>>)>>)
    /\ mergeStep' = 3
    /\ UNCHANGED <<mergeIn, mergeL, mergeR>>
    /\ MergeFrame

NextMerge == MergeFirst \/ MergeSecond \/ MergeAggregate

SpecMerge == InitMerge /\ [][NextMerge]_vars

\* --------------------------------- extractItems on rearranged final slots
\* what the six final slots hold: empty, an ignored consumable, two items
BuildItems == {0, 2003, 3006, 3089}

\* rearrangements of the six slots: reversed, rotated, first two swapped,
\* middle two swapped
BuildPerms ==
    {<<6, 5, 4, 3, 2, 1>>, <<2, 3, 4, 5, 6, 1>>, <<2, 1, 3, 4, 5, 6>>, <<1, 2, 4, 3, 5, 6>>}

\* the participant's clean purchase events, in two orders
BuildEvents ==
    {<< ItemEvent("ITEM_PURCHASED", 1, 5000, 1001, 0, 0),
        ItemEvent("ITEM_PURCHASED", 1, 400000, 3006, 0, 0),
        ItemEvent("ITEM_PURCHASED", 1, 900000, 3089, 0, 0) >>,
     << ItemEvent("ITEM_PURCHASED", 1, 900000, 3089, 0, 0),
        ItemEvent("ITEM_PURCHASED", 1, 400000, 3006, 0, 0),
        ItemEvent("ITEM_PURCHASED", 1, 5000, 1001, 0, 0) >>}

PureFrame == UNCHANGED <<storeVars, cleanVars, mergeVars>>

\* two participants whose final slots hold the same ids in another slot order
InitBuild ==
    /\ InitStore /\ InitCleanIdle /\ InitMergeIdle
    /\ \E slots \in [1..6 -> BuildItems], perm \in BuildPerms, win \in BOOLEAN,
          ev1 \in BuildEvents, ev2 \in BuildEvents :
          fnArgs = [p1 |-> [items |-> slots, win |-> win],
                    p2 |-> [items |-> [n \in 1..6 |-> slots[perm[n]]], win |-> win],
                    ev1 |-> ev1, ev2 |-> ev2]
    /\ fnPc = "first"
    /\ fnOut = <<>>

\* extractItems for the first participant
BuildFirst ==
    /\ fnPc = "first"
    /\ fnOut' = <<extractItems(fnArgs.p1, fnArgs.ev1)>>
    /\ fnPc' = "second"
    /\ UNCHANGED fnArgs
    /\ PureFrame

\* extractItems for the second participant
BuildSecond ==
    /\ fnPc = "second"
    /\ fnOut' = Append(fnOut, extractItems(fnArgs.p2, fnArgs.ev2))
    /\ fnPc' = "done"
    /\ UNCHANGED fnArgs
    /\ PureFrame

NextBuild == BuildFirst \/ BuildSecond

SpecBuild == InitBuild /\ [][NextBuild]_vars

\* ------------------------------------------------------ JavaScript numbers
\* A number is [n, d]: the rational n/d in lowest terms when d > 0, and with
\* d = 0 it is NaN (n = 0), Infinity (n = 1) or -Infinity (n = -1).  The
\* arithmetic is exact: the rounding of doubles is not modelled.  A field that
\* is undefined is NaN, which the expressions of the program treat alike
\* (NaN in sums and quotients, falsy before ||).  The operators bind their
\* operands to x and y first, so that an operand is evaluated once.

\* F of the value of v: a constant of the program, computed once and then used
Bind(v, F(_)) == CHOOSE r \in {F(x) : x \in {v}} : TRUE

RECURSIVE Gcd(_, _)
Gcd(x, y) == IF y = 0 THEN x ELSE Bind(x % y, LAMBDA rest : Gcd(y, rest))

Rat(n, d) ==
    Bind(Gcd(IF n < 0 THEN -n ELSE n, IF d < 0 THEN -d ELSE d),
         LAMBDA g : IF d = 0 THEN [n |-> IF n > 0 THEN 1 ELSE IF n < 0 THEN -1 ELSE 0, d |-> 0]
                    ELSE IF d < 0 THEN [n |-> (-n) \div g, d |-> (-d) \div g]
                    ELSE [n |-> n \div g, d |-> d \div g])

NaN == [n |-> 0, d |-> 0]

\* a + b, a - b, a * b, a / b as IEEE arithmetic answers them: a difference is
\* the sum with -b and a quotient the product with 1/b; the sum is taken over
\* the least common denominator and the product after cross-cancelling
Calc(a, op, b) ==
    Bind(a, LAMBDA x :
    Bind(b, LAMBDA operand :
    Bind(CASE op = "-" -> [n |-> -operand.n, d |-> operand.d]
           [] op = "/" -> IF operand.d = 0
                          THEN [n |-> 0, d |-> IF operand.n = 0 THEN 0 ELSE 1]
                          ELSE IF operand.n < 0 THEN [n |-> -operand.d, d |-> -operand.n]
                          ELSE [n |-> operand.d, d |-> operand.n]
           [] OTHER -> operand,
         LAMBDA y :
            IF op \in {"+", "-"}
            THEN IF x.d = 0 /\ y.d = 0 THEN (IF x = y THEN x ELSE NaN)
                 ELSE IF x.d = 0 THEN x
                 ELSE IF y.d = 0 THEN y
                 ELSE Bind(Rat(x.d, y.d),
                           LAMBDA g : Rat(x.n * g.d + y.n * g.n, x.d * g.d))
            ELSE Bind(Rat(x.n, y.d), LAMBDA p :
                 Bind(Rat(y.n, x.d), LAMBDA q : Rat(p.n * q.n, p.d * q.d))))))

\* a < b: false when either is NaN
Less(a, b) ==
    Bind(a, LAMBDA x :
    Bind(b, LAMBDA y :
       /\ x # NaN /\ y # NaN /\ x # y
       /\ \/ x.d = 0 /\ x.n < 0
          \/ y.d = 0 /\ y.n > 0
          \/ x.d > 0 /\ y.d > 0 /\ x.n * y.d < y.n * x.d))

\* Math.max(a, b), Math.min(a, b): NaN when either is NaN
MathMax(a, b) ==
    Bind(a, LAMBDA x :
    Bind(b, LAMBDA y : IF x = NaN \/ y = NaN THEN NaN ELSE IF Less(x, y) THEN y ELSE x))

MathMin(a, b) ==
    Bind(a, LAMBDA x :
    Bind(b, LAMBDA y : IF x = NaN \/ y = NaN THEN NaN ELSE IF Less(y, x) THEN y ELSE x))

\* a || b: b when a is 0, NaN or undefined
Or(a, b) == Bind(a, LAMBDA x : IF x = NaN \/ x.n = 0 THEN b ELSE x)

\* Math.round(a): the nearest integer, halves upwards
MathRound(a) ==
    Bind(a, LAMBDA x : IF x.d = 0 THEN x
                       ELSE [n |-> (2 * x.n + x.d) \div (2 * x.d), d |-> 1])

\* stats[f], undefined (NaN) when the object has no such field
Field(stats, f) == IF f \in DOMAIN stats THEN stats[f] ELSE NaN

\* ---------------------------------------------------------- ScoringService
\* weights in hundredths: damage, gold, cs, kda, vision, objective, utility
Weights(dm, gd, cs, kd, vs, ob, ut) ==
    [damage |-> Rat(dm, 100), gold |-> Rat(gd, 100), cs |-> Rat(cs, 100), kda |-> Rat(kd, 100),
     vision |-> Rat(vs, 100), objective |-> Rat(ob, 100), utility |-> Rat(ut, 100)]

\* ROLE_WEIGHTS[role] || DEFAULT_WEIGHTS
ROLE_WEIGHTS(role) ==
    CASE role = "TOP" -> Weights(20, 15, 15, 15, 10, 10, 15)
      [] role = "JUNGLE" -> Weights(15, 10, 5, 15, 20, 20, 15)
      [] role = "MID" -> Weights(25, 20, 15, 20, 10, 5, 5)
      [] role = "ADC" -> Weights(30, 25, 20, 15, 5, 5, 0)
      [] role = "SUPPORT" -> Weights(10, 5, 0, 15, 25, 15, 30)
      [] OTHER -> Weights(20, 20, 20, 20, 10, 10, 0)

\* CLASS_MODIFIERS[championClass], in tenths; no entry: the empty object
CLASS_MODIFIERS(championClass) ==
    CASE championClass = "Mage" ->
            [damage |-> Rat(12, 10), utility |-> Rat(8, 10), vision |-> Rat(10, 10)]
      [] championClass = "Assassin" ->
            [damage |-> Rat(13, 10), kda |-> Rat(12, 10), utility |-> Rat(5, 10),
             vision |-> Rat(8, 10)]
      [] championClass = "Tank" ->
            [damage |-> Rat(7, 10), utility |-> Rat(15, 10), kda |-> Rat(10, 10),
             vision |-> Rat(10, 10)]
      [] championClass = "Fighter" ->
            [damage |-> Rat(11, 10), utility |-> Rat(9, 10), kda |-> Rat(10, 10)]
      [] championClass = "Marksman" ->
            [damage |-> Rat(13, 10), gold |-> Rat(12, 10), utility |-> Rat(5, 10)]
      [] championClass = "Support" ->
            [utility |-> Rat(13, 10), vision |-> Rat(12, 10), damage |-> Rat(7, 10)]
      [] OTHER -> [k \in {} |-> NaN]

\* if (weights[key]) weights[key] *= mods[key]
applyClassModifiers(weights, championClass) ==
    LET mods == CLASS_MODIFIERS(championClass)
    IN [key \in DOMAIN weights |->
           IF key \in DOMAIN mods /\ Or(weights[key], NaN) # NaN
           THEN Calc(weights[key], "*", mods[key]) ELSE weights[key]]

calculatePlayerStats(p, duration, teamStats, weightedDeaths) ==
    LET effectiveDeaths == IF weightedDeaths # None THEN The(weightedDeaths) ELSE p.deaths
        zero == Rat(0, 1)
        one == Rat(1, 1)
        dmg == Or(p.totalDamageDealtToChampions, zero)
        gold == Or(p.goldEarned, zero)
    IN [kda |-> Calc(Calc(p.kills, "+", p.assists), "/", MathMax(one, effectiveDeaths)),
        damageShare |-> Calc(dmg, "/", MathMax(one, teamStats.damage)),
        damagePerMin |-> Calc(dmg, "/", duration),
        goldShare |-> Calc(gold, "/", MathMax(one, teamStats.gold)),
        goldPerMin |-> Calc(gold, "/", duration),
        cs |-> Calc(Calc(Or(p.totalMinionsKilled, zero), "+", Or(p.neutralMinionsKilled, zero)),
                    "/", duration),
        vision |-> Calc(p.visionScore, "/", duration),
        objective |-> Calc(Calc(Or(p.dragonTakedowns, zero), "+", Or(p.baronTakedowns, zero)),
                           "+",
                           Calc(Or(p.turretTakedowns, zero), "+", Or(p.inhibitorTakedowns, zero))),
        utility |-> Calc(Calc(Or(p.timeCCingOthers, zero), "/", duration), "+",
                         Calc(Calc(Or(p.totalHealsOnTeammates, zero), "+",
                                   Or(p.totalDamageShieldedOnTeammates, zero)),
                              "/", Rat(1000, 1)))]

\* extractMeanFromStats: Some(mean), or None for null; shareKey NULL is undefined
extractMeanFromStats(stats, key, totalKey, shareKey) ==
    IF shareKey # NULL /\ shareKey \in DOMAIN stats
    THEN Some(Calc(stats[shareKey], "/", stats.matches))
    ELSE IF totalKey \in DOMAIN stats /\ key \in {"cs", "vision"}
    THEN Some(Calc(stats[totalKey], "/",
                   Calc(Or(Field(stats, "totalDuration"), Rat(1, 1)), "/", Rat(60, 1))))
    ELSE IF totalKey \in DOMAIN stats /\ key = "kda"
    THEN \* (k + a) / Math.max(1, d) of the per-match means <<k, d, a>>
         Bind([f \in {"totalKills", "totalDeaths", "totalAssists"} |->
                  Calc(Field(stats, f), "/", stats.matches)],
              LAMBDA mean : Some(Calc(Calc(mean.totalKills, "+", mean.totalAssists), "/",
                                      MathMax(Rat(1, 1), mean.totalDeaths))))
    ELSE None

\* the blend without the prior: the matchup mean as it is
shrinkNoPrior(n, sampleMean, globalMean) == sampleMean

\* alpha = n / (n + 10); alpha * sampleMean + (1 - alpha) * globalMean
shrink(n, sampleMean, globalMean) ==
    Bind(Calc(n, "/", Calc(n, "+", Rat(10, 1))),
         LAMBDA alpha : Calc(Calc(alpha, "*", sampleMean), "+",
                             Calc(Calc(Rat(1, 1), "-", alpha), "*", globalMean)))

\* championStats, matchupStats: None when the caller has no row
getBaselineMean(key, totalKey, shareKey, championStats, matchupStats) ==
    LET defaults == [kda |-> Rat(3, 1), damage |-> Rat(600, 1), gold |-> Rat(400, 1),
                     cs |-> Rat(6, 1), vision |-> Rat(1, 1), objective |-> Rat(0, 1)]
    IN \* the means of the rows that have matches > 0: o ?? globalMean
       Bind([row \in {r \in {championStats, matchupStats} :
                        r # None /\ Less(Rat(0, 1), The(r).matches)} |->
                extractMeanFromStats(The(row), key, totalKey, shareKey)],
            LAMBDA found :
       Bind(IF championStats \in DOMAIN found /\ found[championStats] # None
            THEN The(found[championStats]) ELSE defaults[key],
            LAMBDA globalMean :
               IF matchupStats \notin DOMAIN found THEN globalMean
               ELSE shrink(The(matchupStats).matches,
                           IF found[matchupStats] # None THEN The(found[matchupStats])
                           ELSE globalMean,
                           globalMean)))

calculateZScores(stats, championStats, matchupStats, role, laneStats) ==
    LET keys == [kda |-> <<"kda", "totalKills", NULL>>,
                 damage |-> <<"damage", "totalDamage", "totalDamageShare">>,
                 gold |-> <<"gold", "totalGold", "totalGoldShare">>,
                 cs |-> <<"cs", "totalCs", NULL>>,
                 vision |-> <<"vision", "totalVision", NULL>>,
                 objective |-> <<"objective", "totalObjectiveParticipation", NULL>>]
        \* championStats?.total && championStats?.totalDuration
        hasPerMin(totalKey) ==
            /\ championStats # None
            /\ Or(Field(The(championStats), totalKey), NaN) # NaN
            /\ Or(Field(The(championStats), "totalDuration"), NaN) # NaN
        baselineUtil == IF role = "SUPPORT" \/ role = "JUNGLE" THEN Rat(10, 1)
                        ELSE IF role = "TOP" \/ role = "MID" THEN Rat(5, 1)
                        ELSE Rat(2, 1)
    IN \* the baselines: those of getBaselineMean, and the two per minute
       Bind([k \in DOMAIN keys |->
                getBaselineMean(keys[k][1], keys[k][2], keys[k][3],
                                championStats, matchupStats)],
            LAMBDA baseline :
       Bind([k \in {"totalDamage", "totalGold"} |->
                IF hasPerMin(k)
                THEN Calc(The(championStats)[k], "/",
                          Calc(The(championStats).totalDuration, "/", Rat(60, 1)))
                ELSE IF k = "totalDamage" THEN Rat(600, 1) ELSE Rat(400, 1)],
            LAMBDA perMin :
       \* (x - mean) / getStdDev(mean), getStdDev = Math.max(mean * 0.4, 0.1)
       Bind([m \in {"kda", "damageShare", "damagePerMin", "goldShare", "goldPerMin",
                    "cs", "vision", "objective"} |->
                Bind(CASE m = "kda" -> baseline.kda
                       [] m = "damageShare" -> baseline.damage
                       [] m = "damagePerMin" -> perMin.totalDamage
                       [] m = "goldShare" -> baseline.gold
                       [] m = "goldPerMin" -> perMin.totalGold
                       [] m = "cs" -> baseline.cs
                       [] m = "vision" -> baseline.vision
                       [] m = "objective" -> Or(baseline.objective, Rat(2, 1)),
                     LAMBDA mean :
                        Calc(Calc(stats[m], "-", mean), "/",
                             MathMax(Calc(mean, "*", Rat(4, 10)), Rat(1, 10))))],
            LAMBDA z :
          [kda |-> z.kda,
           damage |-> MathMax(z.damageShare, z.damagePerMin),
           gold |-> MathMax(z.goldShare, z.goldPerMin),
           cs |-> z.cs,
           vision |-> z.vision,
           objective |-> z.objective,
           utility |-> Calc(Calc(stats.utility, "-", baselineUtil), "/",
                            Calc(baselineUtil, "*", Rat(5, 10))),
           lane |-> IF laneStats # None
                    THEN Calc(Calc(Calc(Calc(The(laneStats).csd15, "/", Rat(20, 1)), "+",
                                        Calc(The(laneStats).gd15, "/", Rat(1000, 1))), "+",
                                   Calc(The(laneStats).xpd15, "/", Rat(1000, 1))),
                              "/", Rat(3, 1))
                    ELSE Rat(0, 1)])))

\* a mutant of the clipping: the raw z-score goes into the sum
clipNot(z) == Or(z, Rat(0, 1))

\* Math.max(-3, Math.min(3, z || 0))
clip(z) == MathMax(Rat(-3, 1), MathMin(Rat(3, 1), Or(z, Rat(0, 1))))

\* Number(x.toFixed(2)): x to the nearest hundredth, a half away from zero;
\* NaN, the infinities and a number of whole hundredths are left as they are
toFixed2(x) ==
    IF x.d = 0 \/ 100 % x.d = 0 THEN x
    ELSE Bind(IF x.n < 0 THEN -x.n ELSE x.n,
              LAMBDA abs :
                 Bind(Calc(Rat(abs \div x.d, 1), "+",
                           Rat((200 * (abs % x.d) + x.d) \div (2 * x.d), 100)),
                      LAMBDA rounded :
                         IF x.n < 0 THEN Calc(Rat(0, 1), "-", rounded) ELSE rounded))

\* a mutant of the clamp: the score as it is
clampNot(finalScore) == finalScore

\* Math.max(0, Math.min(100, finalScore))
clamp(finalScore) == MathMax(Rat(0, 1), MathMin(Rat(100, 1), finalScore))

\* 100 / (1 + exp(-1.7 * rawScore)), tabulated in hundredths for the tenths of
\* -3.0 .. 3.0; the argument is taken to the nearest tenth, and the ends of the
\* table stand for what lies beyond them.  The entry of 0 is exact.
transformToScore(rawScore) ==
    LET table == <<61, 72, 85, 101, 119, 141, 166, 196, 232, 274,
                   323, 381, 448, 527, 618, 724, 847, 989, 1151, 1335,
                   1545, 1780, 2042, 2333, 2650, 2994, 3363, 3752, 4158, 4576,
                   5000,
                   5424, 5842, 6248, 6637, 7006, 7350, 7667, 7958, 8220, 8455,
                   8665, 8849, 9011, 9153, 9276, 9382, 9473, 9552, 9619, 9677,
                   9726, 9768, 9804, 9834, 9859, 9881, 9899, 9915, 9928, 9939>>
        at(tenth) == IF Less(tenth, Rat(-30, 1)) THEN -30
                     ELSE IF Less(Rat(30, 1), tenth) THEN 30
                     ELSE tenth.n
    IN Bind(MathRound(Calc(rawScore, "*", Rat(10, 1))),
            LAMBDA tenth : IF tenth = NaN THEN NaN ELSE Rat(table[at(tenth) + 31], 100))

getGrade(score) ==
    LET AtLeast(x, bound) == x # NaN /\ ~Less(x, Rat(bound, 1))
    IN
    IF AtLeast(score, 95) THEN "S+"
    ELSE IF AtLeast(score, 85) THEN "S"
    ELSE IF AtLeast(score, 75) THEN "A"
    ELSE IF AtLeast(score, 60) THEN "B"
    ELSE IF AtLeast(score, 40) THEN "C"
    ELSE "D"

\* a mutant of the label: the thresholds are exclusive
getScoreLabelAbove(score) ==
    LET Above(x, bound) == x # NaN /\ Less(Rat(bound, 1), x)
    IN
    IF Above(score, 75) THEN "EXCELLENT"
    ELSE IF Above(score, 60) THEN "GOOD"
    ELSE IF Above(score, 40) THEN "AVERAGE"
    ELSE "POOR"

getScoreLabel(score) ==
    LET AtLeast(x, bound) == x # NaN /\ ~Less(x, Rat(bound, 1))
    IN
    IF AtLeast(score, 75) THEN "EXCELLENT"
    ELSE IF AtLeast(score, 60) THEN "GOOD"
    ELSE IF AtLeast(score, 40) THEN "AVERAGE"
    ELSE "POOR"

\* ------------------------------------------------- calculateScore, in steps
\* the participants scored: an average one, a strong one, a weak one, and one
\* whose payload lacks every field (undefined, NaN)
ScoreParticipants ==
    LET ScoredParticipant(k, d, a, dmg, gold, minions, neutral, vision, objectives, cc, heals) ==
            [kills |-> k, deaths |-> d, assists |-> a,
             totalDamageDealtToChampions |-> dmg, goldEarned |-> gold,
             totalMinionsKilled |-> minions, neutralMinionsKilled |-> neutral,
             visionScore |-> vision,
             dragonTakedowns |-> objectives[1], baronTakedowns |-> objectives[2],
             turretTakedowns |-> objectives[3], inhibitorTakedowns |-> objectives[4],
             timeCCingOthers |-> cc, totalHealsOnTeammates |-> heals,
             totalDamageShieldedOnTeammates |-> heals]
        I(x) == Rat(x, 1)
    IN {ScoredParticipant(I(2), I(1), I(1), I(18000), I(12000), I(150), I(30), I(30),
                    <<I(1), I(0), I(1), I(0)>>, I(150), I(0)),
        ScoredParticipant(I(15), I(1), I(10), I(60000), I(20000), I(300), I(20), I(60),
                    <<I(3), I(1), I(4), I(1)>>, I(300), I(4000)),
        ScoredParticipant(I(0), I(10), I(1), I(3000), I(5000), I(50), I(0), I(5),
                    <<I(0), I(0), I(0), I(0)>>, I(0), I(0)),
        ScoredParticipant(NaN, NaN, NaN, NaN, NaN, NaN, NaN, NaN,
                    <<NaN, NaN, NaN, NaN>>, NaN, NaN)}

\* a championStat or matchupStat row of n matches with the given per-match means
StatRow(n, kills, deaths, assists, dmg, gold, cs, vision, dmgSharePct, goldSharePct) ==
    [matches |-> Rat(n, 1),
     totalKills |-> Rat(n * kills, 1), totalDeaths |-> Rat(n * deaths, 1),
     totalAssists |-> Rat(n * assists, 1),
     totalDamage |-> Rat(n * dmg, 1), totalGold |-> Rat(n * gold, 1),
     totalCs |-> Rat(n * cs, 1), totalVision |-> Rat(n * vision, 1),
     totalDuration |-> Rat(n * 1800, 1),
     totalDamageShare |-> Rat(n * dmgSharePct, 100),
     totalGoldShare |-> Rat(n * goldSharePct, 100),
     totalObjectiveParticipation |-> Rat(n, 2)]

\* matchup rows of the same means and growing sample size
ScoreMatchupRows ==
    {None, Some(StatRow(0, 0, 0, 0, 0, 0, 0, 0, 0, 0))}
    \cup {Some(StatRow(n, 6, 3, 6, 15000, 9000, 120, 30, 30, 25)) : n \in {10, 40}}

\* the parameters the z-scores and the weighted sum depend on; win and
\* matchupWinRate are read by the last step only and are drawn there
ScoreParams ==
    [participant : ScoreParticipants,
     teamPosition : {"", "SUPPORT"},
     duration : {Rat(0, 1), Rat(30, 1)},
     championStats : {None, Some(StatRow(0, 0, 0, 0, 0, 0, 0, 0, 0, 0)),
                      Some(StatRow(20, 4, 5, 6, 24000, 15000, 240, 60, 25, 20))},
     matchupStats : ScoreMatchupRows,
     teamStats : {None, Some([damage |-> Rat(60000, 1), gold |-> Rat(50000, 1),
                              kills |-> Rat(20, 1)])},
     laneStats : {None, Some([csd15 |-> Rat(90, 1), gd15 |-> Rat(6000, 1),
                              xpd15 |-> Rat(3000, 1)])},
     championClass : {NULL, "Assassin"},
     weightedDeaths : {None}]

\* params.matchupWinRate: undefined, or a rate
ScoreWinRates == {None, Some(Rat(20, 100)), Some(Rat(43, 100)), Some(Rat(90, 100))}

\* MLService.calculateMarginalContribution is outside this file: any of these
ScoreContributions == {Rat(5, 100), Rat(10, 100), Rat(20, 100), NaN}

InitScore ==
    /\ InitStore /\ InitCleanIdle /\ InitMergeIdle
    /\ fnArgs \in ScoreParams
    /\ fnPc = "stats"
    /\ fnOut = <<>>

\* lines 493-501: role, player statistics, weights, z-scores
ScoreZ ==
    /\ fnPc = "stats"
    /\ LET role == IF fnArgs.teamPosition = "" THEN "MID" ELSE fnArgs.teamPosition
           teamStats == IF fnArgs.teamStats # None THEN The(fnArgs.teamStats)
                        ELSE [damage |-> Rat(1, 1), gold |-> Rat(1, 1), kills |-> Rat(1, 1)]
       IN \E stats \in {calculatePlayerStats(fnArgs.participant, fnArgs.duration, teamStats,
                                             fnArgs.weightedDeaths)} :
            fnOut' = [role |-> role,
                      stats |-> stats,
                      weights |-> applyClassModifiers(ROLE_WEIGHTS(role),
                                                      fnArgs.championClass),
                      zScores |-> calculateZScores(stats, fnArgs.championStats,
                                                   fnArgs.matchupStats, role,
                                                   fnArgs.laneStats)]
    /\ fnPc' = "sum"
    /\ UNCHANGED fnArgs
    /\ PureFrame

\* lines 503-520: the weighted sum of the clipped z-scores and its average
ScoreSum ==
    /\ fnPc = "sum"
    /\ LET RECURSIVE SumOf(_, _)
           SumOf(f, ks) == IF ks = {} THEN Rat(0, 1)
                           ELSE Bind(CHOOSE x \in ks : TRUE,
                                     LAMBDA k : Calc(f[k], "+", SumOf(f, ks \ {k})))
           weights == fnOut.weights
           laneWeight == Rat(15, 100)
           keys == DOMAIN weights \cup (IF fnArgs.laneStats # None THEN {"lane"} ELSE {})
       IN \E terms \in {[key \in keys |-> clip(fnOut.zScores[key])]},
             weightOf \in {[key \in keys |->
                              IF key \in DOMAIN weights THEN weights[key] ELSE laneWeight]} :
          \E products \in {[key \in keys |-> Calc(terms[key], "*", weightOf[key])]} :
          \E sum \in {SumOf(products, keys)}, totalWeight \in {SumOf(weightOf, keys)} :
            fnOut' = [x \in DOMAIN fnOut \cup {"terms", "totalWeight", "rawScore"} |->
                        CASE x = "terms" -> terms
                          [] x = "totalWeight" -> totalWeight
                          [] x = "rawScore" ->
                               IF Less(Rat(0, 1), totalWeight)
                               THEN Calc(sum, "/", totalWeight) ELSE sum
                          [] OTHER -> fnOut[x]]
    /\ fnPc' = "final"
    /\ UNCHANGED fnArgs
    /\ PureFrame

\* lines 522-569: transform, bonuses, clamps and the ScoreResult
ScoreFinal ==
    /\ fnPc = "final"
    /\ \E breakdown \in {[k \in {"kda", "damage", "gold", "vision", "cs", "objective",
                                   "utility"}
                                  \cup (IF fnArgs.laneStats # None THEN {"lane"} ELSE {}) |->
                                toFixed2(fnOut.zScores[k])]} :
       \E win \in BOOLEAN, matchupWinRate \in ScoreWinRates,
          contribution \in ScoreContributions :
         LET bonus(x, when, more) == IF when THEN Calc(x, "+", Rat(more, 1)) ELSE x
             difficultyMult ==
                 MathMax(Rat(8, 10),
                         MathMin(Rat(12, 10),
                                 Calc(Rat(5, 10), "/",
                                      MathMax(Rat(3, 10), The(matchupWinRate)))))
             adjust(x) == IF matchupWinRate # None THEN Calc(x, "*", difficultyMult) ELSE x
         IN \E base \in {transformToScore(fnOut.rawScore)} :
            \E clamped \in {clamp(adjust(bonus(base, win, 10)))} :
            \E finalScore \in {clamp(bonus(clamped, Less(Rat(10, 100), contribution), 5))} :
              fnOut' = [x \in DOMAIN fnOut \cup {"win", "matchupWinRate", "base",
                                                "contribution", "finalScore", "result"} |->
                          CASE x = "base" -> base
                            [] x = "win" -> win
                            [] x = "matchupWinRate" -> matchupWinRate
                            [] x = "contribution" -> contribution
                            [] x = "finalScore" -> finalScore
                            [] x = "result" ->
                                 [score |-> MathRound(finalScore),
                                  grade |-> getGrade(finalScore),
                                  breakdown |-> breakdown,
                                  comparison |-> getScoreLabel(finalScore),
                                  sampleSize |-> IF fnArgs.matchupStats # None
                                                 THEN The(fnArgs.matchupStats).matches
                                                 ELSE Rat(0, 1)]
                            [] OTHER -> fnOut[x]]
    /\ fnPc' = "done"
    /\ UNCHANGED fnArgs
    /\ PureFrame

NextScore == ScoreZ \/ ScoreSum \/ ScoreFinal

SpecScore == InitScore /\ [][NextScore]_vars

\* ------------------------------------------- AggregationService: heatmap
\* Dates are day numbers (days since the epoch): the YYYY-MM-DD string of
\* toISOString().split('T')[0] is the UTC day of the instant, and the strings
\* of two instants are equal, or ordered, exactly as their UTC days are.
\* A Date is a local wall clock reading [day, hour], taken at half past the
\* hour, in the time zone the process runs in.

\* the number of entries generateDailyHeatmap pushes
HeatDays == 120

\* the local day the aggregation runs on
HeatToday == 1000

\* Time zones of the process: the standard offset from UTC in hours, and for
\* a zone with daylight saving time the local days the clocks change on
\* (forward at 02:00 on the spring day, back to 02:00 on the fall day).
HeatZone(name, std, dst, spring, fall) ==
    [name |-> name, std |-> std, dst |-> dst, spring |-> spring, fall |-> fall]

HeatZones ==
    {HeatZone("UTC", 0, FALSE, 0, 0),
     HeatZone("Asia/Tokyo", 9, FALSE, 0, 0),
     HeatZone("Europe/Paris", 1, TRUE, HeatToday - 11, HeatToday + 200),
     HeatZone("Europe/Paris", 1, TRUE, HeatToday - 250, HeatToday - 30),
     HeatZone("America/New_York", -5, TRUE, HeatToday - 150, HeatToday + 60),
     HeatZone("America/New_York", -5, TRUE, HeatToday - 40, HeatToday + 190)}

\* the offset from UTC of a local wall clock reading: a reading in the hour
\* the clocks skip is taken with the offset before the change, one in the
\* hour the clocks repeat is the first of the two
utcOffset(tz, day, hour) ==
    IF /\ tz.dst
       /\ day > tz.spring \/ (day = tz.spring /\ hour >= 3)
       /\ day < tz.fall \/ (day = tz.fall /\ hour <= 2)
    THEN tz.std + 1
    ELSE tz.std

\* d.toISOString().split('T')[0] for the local reading [day, hour]
isoDate(tz, day, hour) == (day * 24 + hour - utcOffset(tz, day, hour)) \div 24

\* const d = new Date(today); d.setDate(d.getDate() - i): the same wall clock
\* reading i local days earlier; then its ISO date
dateStrOf(tz, today, i) == isoDate(tz, today.day - i, today.hour)

DayData(count, wins) == [count |-> count, wins |-> wins, losses |-> count - wins]

\* updateHeatmapStats(match, me, heatmapData): a match whose gameCreation is
\* not a valid time is skipped.  A match is [valid, day, win], day the UTC
\* day of gameCreation.
updateHeatmapStats(match, heatmapData) ==
    IF match.valid
    THEN Bind(IF match.day \in DOMAIN heatmapData THEN heatmapData[match.day]
              ELSE [count |-> 0, wins |-> 0, losses |-> 0],
              LAMBDA old :
                 [d \in DOMAIN heatmapData \cup {match.day} |->
                    IF d = match.day
                    THEN [count |-> old.count + 1,
                          wins |-> IF match.win THEN old.wins + 1 ELSE old.wins,
                          losses |-> IF match.win THEN old.losses ELSE old.losses + 1]
                    ELSE heatmapData[d]])
    ELSE heatmapData

HeatMatch(valid, day, win) == [valid |-> valid, day |-> day, win |-> win]

\* the matches of a player, most recent first
HeatMatches ==
    <<HeatMatch(TRUE, HeatToday, FALSE), HeatMatch(TRUE, HeatToday - 1, TRUE),
      HeatMatch(TRUE, HeatToday - 1, FALSE), HeatMatch(TRUE, HeatToday - 1, FALSE),
      HeatMatch(FALSE, 0, TRUE), HeatMatch(TRUE, HeatToday - 1, TRUE),
      HeatMatch(TRUE, HeatToday - 1, TRUE), HeatMatch(TRUE, HeatToday - 3, TRUE),
      HeatMatch(TRUE, HeatToday - 3, TRUE), HeatMatch(TRUE, HeatToday - 3, TRUE),
      HeatMatch(TRUE, HeatToday - 130, TRUE)>>

\* matches.forEach(match => updateHeatmapStats(match, me, heatmapData))
RECURSIVE HeatDataOf(_, _)
HeatDataOf(matches, heatmapData) ==
    IF matches = <<>> THEN heatmapData
    ELSE HeatDataOf(Tail(matches), updateHeatmapStats(Head(matches), heatmapData))

\* heatmapData as updateHeatmapStats leaves it: keyed by the ISO date of
\* match.gameCreation; a player with no matches has the empty object
HeatData ==
    {<<>>,
     [d \in (HeatToday - 6)..HeatToday |->
        CASE d = HeatToday     -> DayData(1, 1)
          [] d = HeatToday - 1 -> DayData(2, 0)
          [] d = HeatToday - 2 -> DayData(3, 1)
          [] d = HeatToday - 3 -> DayData(5, 2)
          [] d = HeatToday - 4 -> DayData(5, 3)
          [] d = HeatToday - 5 -> DayData(4, 3)
          [] OTHER             -> DayData(2, 1)],
     HeatDataOf(HeatMatches, <<>>)}

\* heatmapData[dateStr] || { count: 0, wins: 0, losses: 0 }
dayDataOf(heatmapData, dateStr) ==
    IF dateStr \in DOMAIN heatmapData THEN heatmapData[dateStr] ELSE DayData(0, 0)

\* a mutant of the intensity: a win rate of 60% is already 4
heatIntensityExclusive(dayData) ==
    IF dayData.count > 0
    THEN IF dayData.count < 3
         THEN IF 2 * dayData.wins >= dayData.count THEN 2 ELSE 1
         ELSE IF 10 * dayData.wins < 4 * dayData.count THEN 2
              ELSE IF 10 * dayData.wins < 6 * dayData.count THEN 3
              ELSE 4
    ELSE 0

\* the intensity of one day, wr = wins / count
heatIntensity(dayData) ==
    IF dayData.count > 0
    THEN IF dayData.count < 3
         THEN IF 2 * dayData.wins >= dayData.count THEN 2 ELSE 1
         ELSE IF 10 * dayData.wins < 4 * dayData.count THEN 2
              ELSE IF 10 * dayData.wins <= 6 * dayData.count THEN 3
              ELSE 4
    ELSE 0

heatEntry(dateStr, dayData) ==
    [date |-> dateStr, games |-> dayData.count, wins |-> dayData.wins,
     losses |-> dayData.losses, intensity |-> heatIntensity(dayData)]

\* generateDailyHeatmap is called with the heatmap data of the player, at
\* some hour of the local day, in the time zone of the process
InitHeat ==
    /\ InitStore /\ InitCleanIdle /\ InitMergeIdle
    /\ \E tz \in HeatZones, hour \in 0..23, heatmapData \in HeatData :
          fnArgs = [tz |-> tz, today |-> [day |-> HeatToday, hour |-> hour],
                    heatmapData |-> heatmapData]
    /\ fnPc = "heatLoop"
    /\ fnOut = [i |-> HeatDays - 1, heatmap |-> <<>>]

\* one turn of the loop: for (let i = 119; i >= 0; i--) { ... heatmap.push }
HeatPush ==
    /\ fnPc = "heatLoop"
    /\ fnOut.i >= 0
    /\ \E dateStr \in {dateStrOf(fnArgs.tz, fnArgs.today, fnOut.i)} :
          fnOut' = [i |-> fnOut.i - 1,
                    heatmap |-> Append(fnOut.heatmap,
                                   heatEntry(dateStr, dayDataOf(fnArgs.heatmapData, dateStr)))]
    /\ UNCHANGED <<fnArgs, fnPc>>
    /\ PureFrame

\* return heatmap
HeatReturn ==
    /\ fnPc = "heatLoop"
    /\ fnOut.i < 0
    /\ fnPc' = "heatDone"
    /\ UNCHANGED <<fnArgs, fnOut>>
    /\ PureFrame

NextHeat == HeatPush \/ HeatReturn

SpecHeat == InitHeat /\ [][NextHeat]_vars

\* ------------------------------------------- seed_database: processPlayer
\* The batch of one player: mapWithConcurrency(idsToProcess, CONCURRENCY, cb)
\* runs the callback once per match id, at most CONCURRENCY at a time.  The
\* helper is imported from RiotService; the callback is lines 368-410.

\* matches in idsToProcess
MaxBatch == 3
\* CONFIG.CONCURRENCY
BatchConcurrency == 2

\* what the helper does when a callback settles (RiotService, by the
\* specification: a failing match aborts only that match, not the batch)
settleFailFast(settled) == IF settled = "rejected" THEN "abort" ELSE "next"
settle(settled) == "next"

InitBatch ==
    /\ InitStore /\ InitCleanIdle /\ InitMergeIdle
    /\ \E n \in 1..MaxBatch : fnArgs = [idsToProcess |-> [i \in 1..n |-> i]]
    /\ fnPc = "batch"
    /\ fnOut = [next |-> 1,
                workers |-> [w \in 1..BatchConcurrency |-> [pc |-> "idle", item |-> 0]],
                outcome |-> [i \in DOMAIN fnArgs.idsToProcess |-> "pending"],
                processedCount |-> 0]

\* the callback of worker w has settled with the given outcome for its match
BatchSettled(w, outcome, settled, count) ==
    /\ fnOut' = [fnOut EXCEPT !.workers[w] = [pc |-> "idle", item |-> 0],
                              !.outcome[fnOut.workers[w].item] = outcome,
                              !.processedCount = count]
    /\ fnPc' = IF settle(settled) = "abort" THEN "batchFailed" ELSE fnPc

\* a free worker of the helper starts the callback on the next match id
BatchTake ==
    /\ fnPc = "batch"
    /\ \E w \in 1..BatchConcurrency :
          /\ fnOut.workers[w].pc = "idle"
          /\ fnOut.next <= Len(fnArgs.idsToProcess)
          /\ fnOut' = [fnOut EXCEPT !.workers[w] = [pc |-> "fetch", item |-> fnOut.next],
                                    !.outcome[fnOut.next] = "started",
                                    !.next = fnOut.next + 1]
    /\ UNCHANGED <<fnArgs, fnPc>>
    /\ PureFrame

\* await riotFetchRaw; if (!mRes.ok) return; JSON.parse(mRes.body || '{}');
\* matchData.info.gameVersion; return when the match is of an older patch
BatchFetch ==
    /\ fnPc = "batch"
    /\ \E w \in 1..BatchConcurrency :
          /\ fnOut.workers[w].pc = "fetch"
          /\ \E res \in {"nonOk", "malformed", "oldPatch", "ok"} :
                CASE res = "ok" ->
                        /\ fnOut' = [fnOut EXCEPT !.workers[w].pc = "try"]
                        /\ UNCHANGED fnPc
                  [] res = "malformed" ->
                        BatchSettled(w, res, "rejected", fnOut.processedCount)
                  [] OTHER ->
                        BatchSettled(w, res, "resolved", fnOut.processedCount)
    /\ UNCHANGED fnArgs
    /\ PureFrame

\* try { await saveMatchAndStats; await scannedMatch.upsert; processedCount++ }
\* catch (err) { }
BatchTry ==
    /\ fnPc = "batch"
    /\ \E w \in 1..BatchConcurrency :
          /\ fnOut.workers[w].pc = "try"
          /\ \E res \in {"storeError", "processed"} :
                fnOut' = [fnOut EXCEPT !.workers[w].pc = "delay",
                             !.outcome[fnOut.workers[w].item] = res,
                             !.processedCount =
                                 IF res = "processed" THEN @ + 1 ELSE @]
    /\ UNCHANGED <<fnArgs, fnPc>>
    /\ PureFrame

\* await delay(200): the callback resolves
BatchDelay ==
    /\ fnPc = "batch"
    /\ \E w \in 1..BatchConcurrency :
          /\ fnOut.workers[w].pc = "delay"
          /\ BatchSettled(w, fnOut.outcome[fnOut.workers[w].item], "resolved",
                          fnOut.processedCount)
    /\ UNCHANGED fnArgs
    /\ PureFrame

\* every id was taken and every callback has settled: return processedCount
BatchReturn ==
    /\ fnPc = "batch"
    /\ fnOut.next > Len(fnArgs.idsToProcess)
    /\ \A w \in 1..BatchConcurrency : fnOut.workers[w].pc = "idle"
    /\ fnPc' = "batchDone"
    /\ UNCHANGED <<fnArgs, fnOut>>
    /\ PureFrame

NextBatch == BatchTake \/ BatchFetch \/ BatchTry \/ BatchDelay \/ BatchReturn

\* every pending fetch, store call and timer settles
SpecBatch == InitBatch /\ [][NextBatch]_vars /\ WF_vars(NextBatch)

\* ------------------------------------ item mining of one participant's game
\* The item events of participant 1 in timeline order.  The purchases of the
\* six items of a full build are in every stream; each other event is in a
\* stream or not.
PathPool ==
    << ItemEvent("ITEM_PURCHASED", 1, 5000, 1055, 0, 0),
       ItemEvent("ITEM_PURCHASED", 1, 9000, 1001, 0, 0),
       ItemEvent("ITEM_PURCHASED", 1, 10000, 3340, 0, 0),
       ItemEvent("ITEM_PURCHASED", 1, 20000, 1055, 0, 0),
       ItemEvent("ITEM_SOLD", 1, 30000, 1056, 0, 0),
       ItemEvent("ITEM_PURCHASED", 1, 60000, 2003, 0, 0),
       ItemEvent("ITEM_UNDO", 1, 60000, 0, 2003, 0),
       ItemEvent("ITEM_PURCHASED", 1, 60001, 1054, 0, 0),
       ItemEvent("ITEM_PURCHASED", 1, 350000, 1038, 0, 0),
       ItemEvent("ITEM_PURCHASED", 1, 400000, 3006, 0, 0),
       ItemEvent("ITEM_PURCHASED", 1, 500000, 3031, 0, 0),
       ItemEvent("ITEM_PURCHASED", 1, 600000, 3089, 0, 0),
       ItemEvent("ITEM_PURCHASED", 1, 650000, 3006, 0, 0),
       ItemEvent("ITEM_PURCHASED", 1, 700000, 3157, 0, 0),
       ItemEvent("ITEM_UNDO", 1, 710000, 0, 3157, 0),
       ItemEvent("ITEM_PURCHASED", 1, 800000, 3135, 0, 0),
       ItemEvent("ITEM_PURCHASED", 1, 900000, 3165, 0, 0) >>

\* the events of the pool that a stream may lack
PathOptional == {1, 2, 3, 4, 5, 6, 7, 8, 13, 15, 17}

RECURSIVE PathStream(_, _)
\* the events of the pool from position i on that are not left out
PathStream(left, i) ==
    IF i > Len(PathPool) THEN <<>>
    ELSE (IF i \in left THEN <<>> ELSE <<PathPool[i]>>) \o PathStream(left, i + 1)

\* p.item0 .. p.item5 at the end of the game
PathFinals ==
    {<<3006, 3031, 3089, 3157, 3135, 3165>>,
     <<3165, 3135, 3006, 3089, 3031, 3340>>,
     <<1001, 1038, 3089, 3340, 1055, 0>>,
     <<0, 0, 0, 0, 0, 0>>}

InitPath ==
    /\ InitStore /\ InitCleanIdle /\ InitMergeIdle
    /\ \E left \in SUBSET PathOptional, slots \in PathFinals, win \in BOOLEAN :
          fnArgs = [p |-> [participantId |-> 1, items |-> slots, win |-> win],
                    events |-> PathStream(left, 1)]
    /\ fnPc = "timeline"
    /\ fnOut = <<>>

\* const { skillOrderString, cleanEvents } = await extractTimelineData(...)
PathTimeline ==
    /\ fnPc = "timeline"
    /\ fnOut' = [tl |-> extractTimelineData(fnArgs.events, fnArgs.p.participantId, TRUE)]
    /\ fnPc' = "items"
    /\ UNCHANGED fnArgs
    /\ PureFrame

\* const items = this.extractItems(p, cleanEvents, itemMap)
PathItems ==
    /\ fnPc = "items"
    /\ fnOut' = [tl |-> fnOut.tl, items |-> extractItems(fnArgs.p, fnOut.tl.cleanEvents)]
    /\ fnPc' = "mined"
    /\ UNCHANGED fnArgs
    /\ PureFrame

NextPath == PathTimeline \/ PathItems

SpecPath == InitPath /\ [][NextPath]_vars

\* ------------------------------------------- getGrade and getScoreLabel
\* the scores of [0, 100] in steps of 1 / GradeSteps
GradeSteps == 4

InitGrade ==
    /\ InitStore /\ InitCleanIdle /\ InitMergeIdle
    /\ \E q \in 0..(100 * GradeSteps) : fnArgs = [finalScore |-> Rat(q, GradeSteps)]
    /\ fnPc = "grade"
    /\ fnOut = <<>>

\* grade: this.getGrade(finalScore), comparison: getScoreLabel(finalScore)
GradeAndLabel ==
    /\ fnPc = "grade"
    /\ fnOut' = [grade |-> getGrade(fnArgs.finalScore),
                 comparison |-> getScoreLabel(fnArgs.finalScore)]
    /\ fnPc' = "graded"
    /\ UNCHANGED fnArgs
    /\ PureFrame

SpecGrade == InitGrade /\ [][GradeAndLabel]_vars

\* ------------------------------------------- AggregationService: teammates
\* calculateAggregations walks the matches of a player, most recent first;
\* updateTeammatesStats counts the teammates of the first matches only.

\* if (matches.indexOf(match) >= 20 ...) return
TeammateWindow == 20
\* .slice(0, 5)
TopTeammates == 5
\* matches in the list
TeamListLen == 22

Teammate(summonerName, tagLine, win) ==
    [summonerName |-> summonerName, tagLine |-> tagLine, win |-> win]

\* the kinds of match in a list: me is match.me being present,
\* teamMatesSummary is None when the match carries no array
TeamKind(k) ==
    CASE k = 1 -> [me |-> TRUE, teamMatesSummary |->
                     Some(<<Teammate("Ann", "EUW", TRUE), Teammate("Bob", "EUW", TRUE)>>)]
      [] k = 2 -> [me |-> TRUE, teamMatesSummary |->
                     Some(<<Teammate("Ann", "EUW", FALSE), Teammate("Cat", "NA1", FALSE),
                            Teammate("Dan", "EUW", FALSE), Teammate("Eve", "EUW", FALSE)>>)]
      [] k = 3 -> [me |-> TRUE, teamMatesSummary |-> None]
      [] k = 4 -> [me |-> FALSE, teamMatesSummary |->
                     Some(<<Teammate("Gus", "EUW", TRUE)>>)]
      [] k = 5 -> [me |-> TRUE, teamMatesSummary |->
                     Some(<<Teammate("Ann", "NA1", TRUE), Teammate("Fay", "EUW", TRUE),
                            Teammate("Bob", "EUW", FALSE)>>)]
      [] OTHER -> [me |-> TRUE, teamMatesSummary |->
                     Some(<<Teammate("Zed", "EUW", TRUE), Teammate("Ann", "EUW", TRUE)>>)]

\* a list of distinct match objects (id is the identity of the object): the
\* match with Zed is at the 0-based index z, the others follow the seed
TeamList(seed, z) ==
    [i \in 1..TeamListLen |->
        [id |-> i] @@ TeamKind(IF i - 1 = z THEN 6 ELSE (((i - 1) * seed) % 5) + 1)]

\* matches.indexOf(match), 0-based
indexOf(matches, match) ==
    (CHOOSE i \in 1..Len(matches) :
        /\ matches[i].id = match.id
        /\ \A j \in 1..(i - 1) : matches[j].id # match.id) - 1

\* const key = `${tm.summonerName}#${tm.tagLine}`
teammateKey(tm) == tm.summonerName \o "#" \o tm.tagLine

\* the body of match.teamMatesSummary.forEach for one teammate; the Map is
\* the sequence of its values in insertion order
countTeammate(teammatesMap, tm) ==
    Bind(IF \E k \in 1..Len(teammatesMap) : teammatesMap[k].key = teammateKey(tm)
         THEN teammatesMap
         ELSE Append(teammatesMap,
                     [key |-> teammateKey(tm), summonerName |-> tm.summonerName,
                      tagLine |-> tm.tagLine, matches |-> 0, wins |-> 0]),
         LAMBDA map :
            [k \in 1..Len(map) |->
                IF map[k].key = teammateKey(tm)
                THEN [map[k] EXCEPT !.matches = @ + 1,
                                    !.wins = IF tm.win THEN @ + 1 ELSE @]
                ELSE map[k]])

RECURSIVE countTeammates(_, _)
countTeammates(teammatesMap, summary) ==
    IF summary = <<>> THEN teammatesMap
    ELSE countTeammates(countTeammate(teammatesMap, Head(summary)), Tail(summary))

\* a mutant of the window: the match at index 20 is still counted
updateTeammatesStatsLate(match, matches, teammatesMap) ==
    IF indexOf(matches, match) > TeammateWindow \/ match.teamMatesSummary = None
    THEN teammatesMap
    ELSE countTeammates(teammatesMap, match.teamMatesSummary[1])

updateTeammatesStats(match, matches, teammatesMap) ==
    IF indexOf(matches, match) >= TeammateWindow \/ match.teamMatesSummary = None
    THEN teammatesMap
    ELSE countTeammates(teammatesMap, match.teamMatesSummary[1])

\* the teammate reported for one value of the Map
teammateView(t) ==
    [name |-> t.summonerName, tag |-> t.tagLine, wins |-> t.wins,
     losses |-> t.matches - t.wins,
     winrate |-> MathRound(Calc(Calc(Rat(t.wins, 1), "/", Rat(t.matches, 1)), "*", Rat(100, 1))),
     games |-> t.matches]

\* .sort((a, b) => b.games - a.games): stable, by insertion from the right
RECURSIVE sortByGames(_)
insertByGames(sorted, t) ==
    Bind(Cardinality({k \in 1..Len(sorted) : sorted[k].games > t.games}),
         LAMBDA n : SubSeq(sorted, 1, n) \o <<t>> \o SubSeq(sorted, n + 1, Len(sorted)))

sortByGames(s) ==
    IF s = <<>> THEN <<>>
    ELSE insertByGames(sortByGames(Tail(s)), Head(s))

InitTeam ==
    /\ InitStore /\ InitCleanIdle /\ InitMergeIdle
    /\ \E seed \in 1..5, z \in (TeammateWindow - 3)..(TeamListLen - 1) :
          fnArgs = [matches |-> TeamList(seed, z)]
    /\ fnPc = "teamEach"
    /\ fnOut = [i |-> 1, teammatesMap |-> <<>>]

\* matches.forEach(match => this.processMatch(match, matches, context)):
\* a match without me is skipped
TeamProcessMatch ==
    /\ fnPc = "teamEach"
    /\ fnOut.i <= Len(fnArgs.matches)
    /\ fnOut' = [i |-> fnOut.i + 1,
                 teammatesMap |->
                    IF fnArgs.matches[fnOut.i].me
                    THEN updateTeammatesStats(fnArgs.matches[fnOut.i], fnArgs.matches,
                                              fnOut.teammatesMap)
                    ELSE fnOut.teammatesMap]
    /\ UNCHANGED <<fnArgs, fnPc>>
    /\ PureFrame

\* teammates: Array.from(values).map(...).sort(...).slice(0, 5)
TeamReturn ==
    /\ fnPc = "teamEach"
    /\ fnOut.i > Len(fnArgs.matches)
    /\ \E sorted \in {sortByGames([k \in 1..Len(fnOut.teammatesMap) |->
                                     teammateView(fnOut.teammatesMap[k])])} :
          fnOut' = [i |-> fnOut.i, teammatesMap |-> fnOut.teammatesMap,
                    teammates |-> SubSeq(sorted, 1,
                                     IF Len(sorted) < TopTeammates THEN Len(sorted)
                                     ELSE TopTeammates)]
    /\ fnPc' = "teamDone"
    /\ UNCHANGED fnArgs
    /\ PureFrame

NextTeam == TeamProcessMatch \/ TeamReturn

SpecTeam == InitTeam /\ [][NextTeam]_vars

\* ------------------------------------------- IEEE 754 double arithmetic
\* The scores of calculateConsistency are JavaScript numbers, and its result
\* turns on comparisons at the boundaries 8 and 18, so its arithmetic is
\* modelled as the binary64 arithmetic it is: every operation is the exact
\* result rounded to 53 significant bits, ties to even.  Natural numbers of
\* any size are little-endian sequences of limbs below LimbBase, without a
\* leading zero limb (zero is the empty sequence).
LimbBase == 2 ^ 12

RECURSIVE BitsOf(_)
BitsOf(n) == IF n = 0 THEN 0 ELSE 1 + BitsOf(n \div 2)

\* the bits of a limb
LimbBits == BitsOf(LimbBase - 1)

RECURSIVE BigOf(_)
BigOf(n) == IF n = 0 THEN <<>> ELSE <<n % LimbBase>> \o BigOf(n \div LimbBase)

RECURSIVE BigTrim(_)
BigTrim(a) ==
    IF a = <<>> THEN <<>>
    ELSE IF a[Len(a)] = 0 THEN BigTrim(SubSeq(a, 1, Len(a) - 1)) ELSE a

BigLimb(a, i) == IF i <= Len(a) THEN a[i] ELSE 0

RECURSIVE BigAddFrom(_, _, _, _)
BigAddFrom(a, b, i, carry) ==
    IF i > Len(a) /\ i > Len(b)
    THEN (IF carry = 0 THEN <<>> ELSE <<carry>>)
    ELSE <<(BigLimb(a, i) + BigLimb(b, i) + carry) % LimbBase>>
            \o BigAddFrom(a, b, i + 1, (BigLimb(a, i) + BigLimb(b, i) + carry) \div LimbBase)

BigAdd(a, b) == BigAddFrom(a, b, 1, 0)

\* a - b for a >= b
RECURSIVE BigSubFrom(_, _, _, _)
BigSubFrom(a, b, i, borrow) ==
    IF i > Len(a) THEN <<>>
    ELSE <<(a[i] - BigLimb(b, i) - borrow) % LimbBase>>
            \o BigSubFrom(a, b, i + 1, IF a[i] - BigLimb(b, i) - borrow < 0 THEN 1 ELSE 0)

BigSub(a, b) == BigTrim(BigSubFrom(a, b, 1, 0))

\* -1, 0, 1 as a < b, a = b, a > b
RECURSIVE BigCmpFrom(_, _, _)
BigCmpFrom(a, b, i) ==
    IF i = 0 THEN 0
    ELSE IF a[i] < b[i] THEN -1
    ELSE IF a[i] > b[i] THEN 1
    ELSE BigCmpFrom(a, b, i - 1)

BigCmp(a, b) ==
    IF Len(a) < Len(b) THEN -1
    ELSE IF Len(a) > Len(b) THEN 1
    ELSE BigCmpFrom(a, b, Len(a))

\* a * n for a number n below LimbBase
RECURSIVE BigMulSmallFrom(_, _, _, _)
BigMulSmallFrom(a, n, i, carry) ==
    IF i > Len(a) THEN (IF carry = 0 THEN <<>> ELSE <<carry>>)
    ELSE <<(a[i] * n + carry) % LimbBase>>
            \o BigMulSmallFrom(a, n, i + 1, (a[i] * n + carry) \div LimbBase)

BigMulSmall(a, n) == IF n = 0 THEN <<>> ELSE BigMulSmallFrom(a, n, 1, 0)

BigShiftLimbs(a, q) == IF a = <<>> THEN <<>> ELSE [i \in 1..q |-> 0] \o a

RECURSIVE BigMulFrom(_, _, _)
BigMulFrom(a, b, j) ==
    IF j > Len(b) THEN <<>>
    ELSE BigAdd(BigShiftLimbs(BigMulSmall(a, b[j]), j - 1), BigMulFrom(a, b, j + 1))

BigMul(a, b) == BigMulFrom(a, b, 1)

\* a * 2^k
BigShl(a, k) == BigShiftLimbs(BigMulSmall(a, 2 ^ (k % LimbBits)), k \div LimbBits)

\* the quotient of a by a number n below 2^19, from the top limb down
RECURSIVE BigDivSmallFrom(_, _, _, _)
BigDivSmallFrom(a, n, i, rem) ==
    IF i = 0 THEN <<>>
    ELSE BigDivSmallFrom(a, n, i - 1, (rem * LimbBase + a[i]) % n)
            \o <<(rem * LimbBase + a[i]) \div n>>

BigDivSmall(a, n) == BigTrim(BigDivSmallFrom(a, n, Len(a), 0))

RECURSIVE BigModSmallFrom(_, _, _, _)
BigModSmallFrom(a, n, i, rem) ==
    IF i = 0 THEN rem ELSE BigModSmallFrom(a, n, i - 1, (rem * LimbBase + a[i]) % n)

BigModSmall(a, n) == BigModSmallFrom(a, n, Len(a), 0)

\* floor(a / 2^k)
BigShr(a, k) ==
    IF k \div LimbBits >= Len(a) THEN <<>>
    ELSE BigDivSmall(SubSeq(a, k \div LimbBits + 1, Len(a)), 2 ^ (k % LimbBits))

\* the number of bits of a
BigBits(a) == IF a = <<>> THEN 0 ELSE LimbBits * (Len(a) - 1) + BitsOf(a[Len(a)])

\* bit k of a (bit 0 is the lowest)
BigBit(a, k) == (BigLimb(a, k \div LimbBits + 1) \div 2 ^ (k % LimbBits)) % 2

\* some bit of a below bit k is set
BigLowBits(a, k) == BigShl(BigShr(a, k), k) # a

\* floor(sqrt(a)): the bits of the root from bit hi down to bit lo, each set
\* when the square stays within a
RECURSIVE BigSqrtBits(_, _, _, _)
BigSqrtBits(a, root, hi, lo) ==
    IF hi < lo THEN root
    ELSE IF BigCmp(BigMul(BigAdd(root, BigShl(<<1>>, hi)),
                          BigAdd(root, BigShl(<<1>>, hi))), a) <= 0
         THEN BigSqrtBits(a, BigAdd(root, BigShl(<<1>>, hi)), hi - 1, lo)
         ELSE BigSqrtBits(a, root, hi - 1, lo)

\* limb by limb from the top
RECURSIVE BigSqrtLimbs(_, _, _)
BigSqrtLimbs(a, root, limb) ==
    IF limb < 0 THEN root
    ELSE Bind(BigSqrtBits(a, root, LimbBits * limb + LimbBits - 1, LimbBits * limb),
              LAMBDA r : BigSqrtLimbs(a, r, limb - 1))

BigSqrt(a) == BigSqrtLimbs(a, <<>>, Len(a) \div 2)

\* A double is [neg, m, e], the number (-1)^neg * m * 2^e with m of exactly
\* MantissaBits bits, or m zero.  The scores and their squares are far from
\* the exponent range, so no double here is subnormal or infinite.
MantissaBits == 52 + 1

Double(neg, m, e) == [neg |-> neg, m |-> m, e |-> e]

\* the double nearest to (-1)^neg * M * 2^e, ties to even
RoundDouble(neg, M, e) ==
    Bind(BigBits(M) - MantissaBits,
         LAMBDA shift :
            IF M = <<>> THEN Double(FALSE, <<>>, 0)
            ELSE IF shift <= 0 THEN Double(neg, BigShl(M, -shift), e + shift)
            ELSE Bind(BigShr(M, shift),
                      LAMBDA q :
                         IF /\ BigBit(M, shift - 1) = 1
                            /\ BigLowBits(M, shift - 1) \/ BigBit(q, 0) = 1
                         THEN Bind(BigAdd(q, <<1>>),
                                   LAMBDA up :
                                      IF BigBits(up) > MantissaBits
                                      THEN Double(neg, BigShr(up, 1), e + shift + 1)
                                      ELSE Double(neg, up, e + shift))
                         ELSE Double(neg, q, e + shift)))

DoubleOf(n) == RoundDouble(n < 0, BigOf(IF n < 0 THEN -n ELSE n), 0)

DoubleNeg(a) == IF a.m = <<>> THEN a ELSE Double(~a.neg, a.m, a.e)

\* a + b: both brought to the lower exponent, added or subtracted exactly,
\* then rounded
DoubleAdd(a, b) ==
    IF a.m = <<>> THEN b
    ELSE IF b.m = <<>> THEN a
    ELSE Bind(IF a.e < b.e THEN a.e ELSE b.e,
              LAMBDA e :
                 Bind(<<BigShl(a.m, a.e - e), BigShl(b.m, b.e - e)>>,
                      LAMBDA M :
                         IF a.neg = b.neg THEN RoundDouble(a.neg, BigAdd(M[1], M[2]), e)
                         ELSE IF BigCmp(M[1], M[2]) >= 0
                              THEN RoundDouble(a.neg, BigSub(M[1], M[2]), e)
                              ELSE RoundDouble(b.neg, BigSub(M[2], M[1]), e)))

DoubleSub(a, b) == DoubleAdd(a, DoubleNeg(b))

DoubleMul(a, b) == RoundDouble(a.neg # b.neg, BigMul(a.m, b.m), a.e + b.e)

\* a / n for a whole number n in 1..2^19: the quotient to 2 * MantissaBits
\* further bits, with one more bit set when the division leaves a remainder
DoubleDivInt(a, n) ==
    Bind(BigShl(a.m, 2 * MantissaBits),
         LAMBDA M :
            RoundDouble(a.neg,
                        BigAdd(BigMulSmall(BigDivSmall(M, n), 2),
                               IF BigModSmall(M, n) # 0 THEN <<1>> ELSE <<>>),
                        a.e - 2 * MantissaBits - 1))

\* Math.sqrt(a) for a >= 0: the root of m * 2^e with e made even and m
\* lengthened, with one more bit set when the root is not exact
DoubleSqrt(a) ==
    IF a.m = <<>> THEN a
    ELSE Bind(MantissaBits + 3 + (a.e % 2),
              LAMBDA k :
                 Bind(BigShl(a.m, k),
                      LAMBDA M :
                         Bind(BigSqrt(M),
                              LAMBDA root :
                                 RoundDouble(FALSE,
                                             BigAdd(BigMulSmall(root, 2),
                                                    IF BigMul(root, root) # M THEN <<1>>
                                                    ELSE <<>>),
                                             (a.e - k) \div 2 - 1))))

\* a < b
DoubleLess(a, b) ==
    Bind(DoubleSub(a, b), LAMBDA d : d.m # <<>> /\ d.neg)
\* ------------------------------------------- AggregationService: consistency
\* calculateConsistency(scores, totalScore, scoreCount) is called with what
\* updatePerformanceStats gathered: scores holds me.legendScore of every
\* scored match, totalScore is their sum and scoreCount their number.  A
\* legendScore is a whole number of 0..100 (Math.round of the clamped score),
\* so totalScore is exact.

RECURSIVE SumOf(_)
SumOf(s) == IF s = <<>> THEN 0 ELSE Head(s) + SumOf(Tail(s))

\* the scores of the scored matches of a player
ConsScores ==
    {<<>>,
     <<50, 90, 10, 70>>,
     <<50, 50, 50, 50, 50>>,
     <<62, 38, 54, 46, 50>>,
     <<62, 38, 54, 46, 51>>,
     <<63, 38, 54, 46, 50>>,
     <<77, 23, 59, 41, 50>>,
     <<78, 23, 59, 41, 50>>,
     <<77, 24, 59, 41, 50>>,
     <<10, 95, 50, 20, 80, 55>>,
     <<49, 66, 60, 46, 41, 42, 53, 45, 45>>,
     <<67, 34, 55, 48, 49, 51, 49, 50, 50>>,
     <<74, 41, 23, 36, 23, 56, 43, 75, 46>>}

\* the double next to a, away from zero
DoubleAbove(a) == RoundDouble(a.neg, BigAdd(a.m, <<1>>), a.e)

\* the doubles that M * 2^e lies between: itself when it is a double,
\* otherwise the nearest double towards zero and the one above it
DoublesAround(M, e) ==
    Bind(BigBits(M) - MantissaBits,
         LAMBDA shift :
            IF shift <= 0 \/ ~BigLowBits(M, shift) THEN {RoundDouble(FALSE, M, e)}
            ELSE {Double(FALSE, BigShr(M, shift), e + shift),
                  DoubleAbove(Double(FALSE, BigShr(M, shift), e + shift))})

\* Math.pow(x, 2) is an implementation-approximated value: the square when
\* it is a double, otherwise either of the two doubles around it (an error
\* below one unit in the last place)
mathPow2(x) == DoublesAround(BigMul(x.m, x.m), x.e + x.e)

InitCons ==
    /\ InitStore /\ InitCleanIdle /\ InitMergeIdle
    /\ \E scores \in ConsScores :
          fnArgs = [scores |-> scores, totalScore |-> SumOf(scores),
                    scoreCount |-> Len(scores)]
    /\ fnPc = "consStart"
    /\ fnOut = <<>>

\* if (scores.length < 5) return 'Average'; const mean = totalScore / scoreCount
ConsStart ==
    /\ fnPc = "consStart"
    /\ IF Len(fnArgs.scores) < 5
       THEN /\ fnOut' = [badge |-> "Average"]
            /\ fnPc' = "consDone"
       ELSE /\ fnOut' = [mean |-> DoubleDivInt(DoubleOf(fnArgs.totalScore),
                                               fnArgs.scoreCount),
                         i |-> 1, sum |-> DoubleOf(0)]
            /\ fnPc' = "consReduce"
    /\ UNCHANGED fnArgs
    /\ PureFrame

\* one turn of scores.reduce((sum, score) => sum + Math.pow(score - mean, 2), 0)
ConsReduce ==
    /\ fnPc = "consReduce"
    /\ fnOut.i <= Len(fnArgs.scores)
    /\ \E sq \in mathPow2(DoubleSub(DoubleOf(fnArgs.scores[fnOut.i]), fnOut.mean)) :
          fnOut' = [fnOut EXCEPT !.i = @ + 1, !.sum = DoubleAdd(@, sq)]
    /\ UNCHANGED <<fnArgs, fnPc>>
    /\ PureFrame

\* the badge of a standard deviation
consistencyOf(stdDev) ==
    IF DoubleLess(stdDev, DoubleOf(8)) THEN "Rock Solid"
    ELSE IF DoubleLess(DoubleOf(18), stdDev) THEN "Coinflip"
    ELSE "Average"

\* variance = sum / scoreCount; stdDev = Math.sqrt(variance); the badge
ConsBadge ==
    /\ fnPc = "consReduce"
    /\ fnOut.i > Len(fnArgs.scores)
    /\ \E stdDev \in {DoubleSqrt(DoubleDivInt(fnOut.sum, fnArgs.scoreCount))} :
          fnOut' = [stdDev |-> stdDev, badge |-> consistencyOf(stdDev)]
    /\ fnPc' = "consDone"
    /\ UNCHANGED fnArgs
    /\ PureFrame

NextCons == ConsStart \/ ConsReduce \/ ConsBadge

SpecCons == InitCons /\ [][NextCons]_vars

\* ------------------------------------------- seed_database: processPlayerBatch
\* Runs of the seeding script over pages of league entries.  The
\* ScannedSummoner table outlives a run; everything else starts afresh.  A
\* rejected promise that nothing catches ends the run through
\* main().catch(e => { console.error(e); process.exit(1) }).

\* runs of the script
MaxSeedRuns == 2
\* the largest targetForDiv and TARGET_PER_TIER
MaxSeedTarget == 3

SeedPuuids == {"p1", "p2", "p3"}

\* pages of players as fetchRandomPlayers returns them; "" is an entry
\* without puuid
SeedPages == {<<"p1", "", "p2">>, <<"p2", "p3", "p1">>}

SeedRun(run, scanned, handed, players, mode, targetForDiv, tierTarget) ==
    [run |-> run, scanned |-> scanned, handed |-> handed, players |-> players,
     mode |-> mode, targetForDiv |-> targetForDiv, tierTarget |-> tierTarget,
     i |-> 1, addedCount |-> 0, stopTier |-> FALSE, limit |-> 0]

\* processPlayerBatch(players, tier, division, targetForDiv, 0, 0) of the
\* first page of a division
InitSeed ==
    /\ InitStore /\ InitCleanIdle /\ InitMergeIdle
    /\ fnArgs = [region |-> "EUW1"]
    /\ fnPc = "seedLoop"
    /\ \E players \in SeedPages, mode \in {"MATCHES", "PLAYERS"},
          targetForDiv \in 1..MaxSeedTarget, tierTarget \in 1..MaxSeedTarget :
          /\ targetForDiv <= tierTarget
          /\ fnOut = SeedRun(1, {}, [p \in SeedPuuids |-> 0], players, mode,
                             targetForDiv, tierTarget)

\* the head of the for loop up to the call of processPlayer: the two target
\* tests, the puuid test, and the findUnique of ScannedSummoner, which may
\* reject
SeedNextPlayer ==
    /\ fnPc = "seedLoop"
    /\ fnOut.i <= Len(fnOut.players)
    /\ IF fnOut.addedCount >= fnOut.tierTarget
       THEN /\ fnOut' = [fnOut EXCEPT !.stopTier = TRUE]
            /\ fnPc' = "seedReturned"
       ELSE IF fnOut.addedCount >= fnOut.targetForDiv
       THEN /\ fnOut' = fnOut
            /\ fnPc' = "seedReturned"
       ELSE IF fnOut.players[fnOut.i] = ""
       THEN /\ fnOut' = [fnOut EXCEPT !.i = @ + 1]
            /\ fnPc' = "seedLoop"
       ELSE \/ /\ fnOut' = fnOut
               /\ fnPc' = "seedExit"
            \/ IF fnOut.players[fnOut.i] \in fnOut.scanned
               THEN /\ fnOut' = [fnOut EXCEPT !.i = @ + 1]
                    /\ fnPc' = "seedLoop"
               ELSE /\ fnOut' = [fnOut EXCEPT
                                    !.limit = IF fnOut.mode = "MATCHES"
                                              THEN fnOut.targetForDiv - fnOut.addedCount
                                              ELSE MaxSeedTarget,
                                    !.handed[fnOut.players[fnOut.i]] = @ + 1]
                    /\ fnPc' = "seedProcessPlayer"
    /\ UNCHANGED fnArgs
    /\ PureFrame

\* await processPlayer(player, tier, limit, ...): it returns 0 when the
\* summoner fetch or upsert fails, otherwise the number of matches
\* processed (at most limit in MATCHES mode); fetchMatchIds and
\* prisma.match.findMany are awaited outside any try, so their rejection
\* is the rejection of processPlayer.  Then the count is added.
SeedProcessPlayer ==
    /\ fnPc = "seedProcessPlayer"
    /\ \/ \E matchesCount \in 0..fnOut.limit :
             /\ fnOut' = [fnOut EXCEPT !.addedCount =
                             IF fnOut.mode = "MATCHES" THEN @ + matchesCount ELSE @ + 1]
             /\ fnPc' = "seedCreate"
       \/ /\ fnOut' = fnOut
          /\ fnPc' = "seedExit"
    /\ UNCHANGED fnArgs
    /\ PureFrame

\* await prisma.scannedSummoner.create(...), which may reject; await delay
SeedCreate ==
    /\ fnPc = "seedCreate"
    /\ \/ /\ fnOut' = [fnOut EXCEPT !.scanned = @ \cup {fnOut.players[fnOut.i]},
                                    !.i = @ + 1]
          /\ fnPc' = "seedLoop"
       \/ /\ fnOut' = fnOut
          /\ fnPc' = "seedExit"
    /\ UNCHANGED fnArgs
    /\ PureFrame

\* return { addedCount, stopTier } at the end of the list
SeedReturn ==
    /\ fnPc = "seedLoop"
    /\ fnOut.i > Len(fnOut.players)
    /\ fnPc' = "seedReturned"
    /\ UNCHANGED <<fnArgs, fnOut>>
    /\ PureFrame

\* the script is started again, after a run that ended or exited
SeedRunAgain ==
    /\ fnPc \in {"seedReturned", "seedExit"}
    /\ fnOut.run < MaxSeedRuns
    /\ \E players \in SeedPages :
          fnOut' = SeedRun(fnOut.run + 1, fnOut.scanned, fnOut.handed, players,
                           fnOut.mode, fnOut.targetForDiv, fnOut.tierTarget)
    /\ fnPc' = "seedLoop"
    /\ UNCHANGED fnArgs
    /\ PureFrame

NextSeed ==
    SeedNextPlayer \/ SeedProcessPlayer \/ SeedCreate \/ SeedReturn \/ SeedRunAgain

SpecSeed == InitSeed /\ [][NextSeed]_vars

\* ------------------------------------------- processMatch: matchup buckets
\* The matchup upserts of matches processed one after the other, without a
\* failure: for (const p of info.participants) processSingleParticipant,
\* of which only upsertMatchupStats writes matchup buckets.

\* matches processed in a row
MirrorMatches == 2

MirrorPlayer(pid, team, pos, champ, win) ==
    Participant(pid, team, pos, champ, win, pid, <<3089, 0, 0, 0, 0, 0>>, 4, 14,
                Perks(8112, 8345, 5008, 5010, 5001))

MirrorInfo(participants) ==
    [gameVersion |-> <<"14", "1", "555", "1">>, gameDuration |-> 1800,
     durationBucket |-> "MEDIUM", teams |-> <<>>, participants |-> participants]

\* the participants of a match, each with exactly one winning team: two
\* mid laners facing each other; the same champion on both sides; a team
\* with two participants of role MID; a team whose first mid laner has no
\* position
MirrorPool ==
    {MirrorInfo(<<MirrorPlayer(1, 100, "MIDDLE", "Ahri", TRUE),
                  MirrorPlayer(2, 200, "MIDDLE", "Zed", FALSE)>>),
     MirrorInfo(<<MirrorPlayer(1, 100, "MIDDLE", "Ahri", FALSE),
                  MirrorPlayer(2, 200, "MIDDLE", "Ahri", TRUE)>>),
     MirrorInfo(<<MirrorPlayer(1, 100, "MIDDLE", "Ahri", TRUE),
                  MirrorPlayer(2, 100, "JUNGLE", "LeeSin", TRUE),
                  MirrorPlayer(3, 200, "MIDDLE", "Zed", FALSE),
                  MirrorPlayer(4, 200, "MIDDLE", "LeeSin", FALSE)>>),
     MirrorInfo(<<MirrorPlayer(1, 100, "MIDDLE", "Zed", FALSE),
                  MirrorPlayer(2, 200, "", "LeeSin", TRUE),
                  MirrorPlayer(3, 200, "MIDDLE", "Ahri", TRUE)>>)}

InitMirror ==
    /\ InitStore /\ InitCleanIdle /\ InitMergeIdle
    /\ \E matches \in [1..MirrorMatches -> MirrorPool] : fnArgs = [matches |-> matches]
    /\ fnPc = "mirrorParticipant"
    /\ fnOut = [m |-> 1, j |-> 1, matchupStat |-> <<>>]

\* processSingleParticipant of participant j of match m, as far as the
\* matchup buckets go: nothing for an excluded role, otherwise
\* upsertMatchupStats
MirrorParticipant ==
    /\ fnPc = "mirrorParticipant"
    /\ fnOut.j <= Len(fnArgs.matches[fnOut.m].participants)
    /\ LET info == fnArgs.matches[fnOut.m]
           p == info.participants[fnOut.j]
           role == normalizeRole(p.teamPosition)
           opponent == opponentOf(p, info, role)
       IN fnOut' = [fnOut EXCEPT
                       !.j = @ + 1,
                       !.matchupStat =
                           IF ~RoleExcluded(role) /\ opponent # None
                           THEN matchupUpsert(@, p, opponent[1], role, "CHALLENGER", info,
                                              contributionOf(p, info, NoTimeline))
                           ELSE @]
    /\ UNCHANGED <<fnArgs, fnPc>>
    /\ PureFrame

\* the match is done: the next call of processMatch, or none
MirrorMatchDone ==
    /\ fnPc = "mirrorParticipant"
    /\ fnOut.j > Len(fnArgs.matches[fnOut.m].participants)
    /\ IF fnOut.m < MirrorMatches
       THEN /\ fnOut' = [fnOut EXCEPT !.m = @ + 1, !.j = 1]
            /\ fnPc' = "mirrorParticipant"
       ELSE /\ fnOut' = fnOut
            /\ fnPc' = "mirrorDone"
    /\ UNCHANGED fnArgs
    /\ PureFrame

NextMirror == MirrorParticipant \/ MirrorMatchDone

SpecMirror == InitMirror /\ [][NextMirror]_vars

\* ------------------------------------------- seed_database: executeFetchWithRetries
\* const maxRetries = 3
maxRetries == 3
\* if (rateLimitRetries >= 10) return []
MaxRateLimitRetries == 10

\* what attemptFetch can come back with: a response that is ok, a 429, a
\* 5xx, another status, or riotFetchRaw throwing
FetchOutcomes == {"ok", "429", "5xx", "404", "thrown"}

\* the league entries of an ok response; the empty body stands for '[]'
FetchBodies == {<<>>, <<"e1", "e2", "e3">>}

\* the result of attemptFetch for an outcome
attemptFetch(outcome) ==
    [success |-> outcome = "ok",
     rateLimited |-> outcome = "429",
     shouldRetry |-> outcome \in {"5xx", "thrown"}]

\* parseAndShufflePlayers: entries.sort(() => 0.5 - Math.random()).slice(0, count),
\* the entries in some order, cut to count
parseAndShufflePlayers(body, count) ==
    {players \in UNION {[1..n -> Range(body)] : n \in {IF Len(body) < count THEN Len(body)
                                                        ELSE count}} :
        \A a, b \in DOMAIN players : a # b => players[a] # players[b]}

\* a mutant of the rate-limit budget: one more wait
rateLimitExhaustedLate(rateLimitRetries) == rateLimitRetries > MaxRateLimitRetries

rateLimitExhausted(rateLimitRetries) == rateLimitRetries >= MaxRateLimitRetries

InitFetch ==
    /\ InitStore /\ InitCleanIdle /\ InitMergeIdle
    /\ \E body \in FetchBodies, count \in 1..2 : fnArgs = [body |-> body, count |-> count]
    /\ fnPc = "fetchLoop"
    /\ fnOut = [attempt |-> 1, rateLimitRetries |-> 0, fetches |-> 0, retryable |-> 0,
                waits |-> 0, last |-> "none", players |-> <<>>]

\* one turn of while (attempt <= maxRetries): attemptFetch and what follows
FetchTurn ==
    /\ fnPc = "fetchLoop"
    /\ fnOut.attempt <= maxRetries
    /\ \E outcome \in FetchOutcomes :
          LET result == attemptFetch(outcome)
              fetched == [fnOut EXCEPT !.fetches = @ + 1, !.last = outcome,
                                       !.retryable = IF result.shouldRetry THEN @ + 1 ELSE @]
          IN IF result.success
             THEN /\ \E players \in parseAndShufflePlayers(fnArgs.body, fnArgs.count) :
                        fnOut' = [fetched EXCEPT !.players = players]
                  /\ fnPc' = "fetchDone"
             ELSE IF result.rateLimited
             THEN IF rateLimitExhausted(fnOut.rateLimitRetries)
                  THEN /\ fnOut' = fetched
                       /\ fnPc' = "fetchDone"
                  ELSE /\ fnOut' = [fetched EXCEPT !.rateLimitRetries = @ + 1,
                                                   !.waits = @ + 1]
                       /\ fnPc' = "fetchLoop"
             ELSE IF result.shouldRetry
             THEN /\ fnOut' = [fetched EXCEPT !.attempt = @ + 1]
                  /\ fnPc' = "fetchLoop"
             ELSE /\ fnOut' = fetched
                  /\ fnPc' = "fetchDone"
    /\ UNCHANGED fnArgs
    /\ PureFrame

\* the loop ends with attempt > maxRetries: return []
FetchGiveUp ==
    /\ fnPc = "fetchLoop"
    /\ fnOut.attempt > maxRetries
    /\ fnPc' = "fetchDone"
    /\ UNCHANGED <<fnArgs, fnOut>>
    /\ PureFrame

NextFetch == FetchTurn \/ FetchGiveUp

SpecFetch == InitFetch /\ [][NextFetch]_vars /\ WF_vars(NextFetch)

\* ------------------------------------------- useSummonerData: loadData
\* The state of the hook and the calls of loadData in flight.  A call runs
\* up to its await, and after fetchSummonerData settles runs to its end
\* (the try body or the catch, and the finally) without interruption; calls
\* of a poll, an update and the first load may overlap.

\* calls of loadData that may be in flight together
NumLoads == 2
\* calls of loadData in all
MaxLoads == 3

\* what /api/summoner answers: the data of the player
LoadData(tag, n, version) ==
    [profile |-> Some(tag), matches |-> [k \in 1..n |-> tag], heatmap |-> <<tag>>,
     champions |-> <<tag>>, teammates |-> <<tag>>, lpHistory |-> <<tag>>,
     performance |-> Some(tag), version |-> version]

\* fetchSummonerData resolves with one of these (None: a body of null)
LoadAnswers == {None, Some(LoadData("first", 1, None)), Some(LoadData("second", 2, Some("15.25.1")))}

\* or rejects with an Error of one of these messages
LoadErrors == {"RIOT_FORBIDDEN", "Fetch failed", "Failed to fetch"}

\* the useState initial values
HookInit ==
    [loading |-> TRUE, updating |-> FALSE, updateError |-> None, profile |-> None,
     matches |-> <<>>, heatmap |-> <<>>, champions |-> <<>>, teammates |-> <<>>,
     performance |-> None, lpHistory |-> <<>>, version |-> Some("15.24.1")]

LoadIdle == [pc |-> "idle", isUpdate |-> FALSE, isPolling |-> FALSE]

InitLoad ==
    /\ InitStore /\ InitCleanIdle /\ InitMergeIdle
    /\ fnArgs = [region |-> "EUW1"]
    /\ fnPc = "hook"
    /\ fnOut = [hook |-> HookInit, started |-> 0, calls |-> [c \in 1..NumLoads |-> LoadIdle]]

\* loadData(isUpdate, isPolling) up to await fetchSummonerData(...)
LoadStart(c) ==
    /\ fnOut.calls[c].pc # "awaiting"
    /\ fnOut.started < MaxLoads
    /\ \E isUpdate \in BOOLEAN, isPolling \in BOOLEAN :
          fnOut' = [hook |-> [fnOut.hook EXCEPT
                                 !.updating = IF isUpdate THEN TRUE ELSE @,
                                 !.loading = IF ~isUpdate /\ ~isPolling THEN TRUE ELSE @,
                                 !.updateError = None],
                    started |-> fnOut.started + 1,
                    calls |-> [fnOut.calls EXCEPT ![c] =
                                  [pc |-> "awaiting", isUpdate |-> isUpdate,
                                   isPolling |-> isPolling]]]
    /\ UNCHANGED <<fnArgs, fnPc>>
    /\ PureFrame

\* finally { setLoading(false); if (!isPolling) setUpdating(false) }
loadFinally(hook, isPolling) ==
    [hook EXCEPT !.loading = FALSE, !.updating = IF ~isPolling THEN FALSE ELSE @]

\* fetchSummonerData resolved: the try body, then the finally
LoadResolved(c) ==
    /\ fnOut.calls[c].pc = "awaiting"
    /\ \E realData \in LoadAnswers :
          fnOut' = [fnOut EXCEPT
                       !.calls[c].pc = "returned",
                       !.hook = loadFinally(
                                   IF realData # None
                                   THEN [@ EXCEPT !.profile = realData[1].profile,
                                                  !.matches = realData[1].matches,
                                                  !.heatmap = realData[1].heatmap,
                                                  !.champions = realData[1].champions,
                                                  !.teammates = realData[1].teammates,
                                                  !.lpHistory = realData[1].lpHistory,
                                                  !.performance = realData[1].performance,
                                                  !.version = IF realData[1].version # None
                                                              THEN realData[1].version ELSE @]
                                   ELSE @,
                                   fnOut.calls[c].isPolling)]
    /\ UNCHANGED <<fnArgs, fnPc>>
    /\ PureFrame

\* a mutant of the reset: only an update keeps the data
resetsOnFailureOfPoll(isUpdate, isPolling) == ~isUpdate

\* if (!isUpdate && !isPolling) { setProfile(null); setMatches([]); ... }
resetsOnFailure(isUpdate, isPolling) == ~isUpdate /\ ~isPolling

\* fetchSummonerData rejected: the catch, then the finally
LoadRejected(c) ==
    /\ fnOut.calls[c].pc = "awaiting"
    /\ \E message \in LoadErrors :
          fnOut' = [fnOut EXCEPT
                       !.calls[c].pc = "failed",
                       !.hook = loadFinally(
                                   [@ EXCEPT
                                       !.updateError =
                                           IF message = "RIOT_FORBIDDEN" THEN Some("403")
                                           ELSE IF message # "Fetch failed" THEN Some("failed")
                                           ELSE @,
                                       !.profile = IF resetsOnFailure(fnOut.calls[c].isUpdate,
                                                                      fnOut.calls[c].isPolling)
                                                   THEN None ELSE @,
                                       !.matches = IF resetsOnFailure(fnOut.calls[c].isUpdate,
                                                                      fnOut.calls[c].isPolling)
                                                   THEN <<>> ELSE @,
                                       !.heatmap = IF resetsOnFailure(fnOut.calls[c].isUpdate,
                                                                      fnOut.calls[c].isPolling)
                                                   THEN <<>> ELSE @,
                                       !.champions = IF resetsOnFailure(fnOut.calls[c].isUpdate,
                                                                        fnOut.calls[c].isPolling)
                                                     THEN <<>> ELSE @,
                                       !.teammates = IF resetsOnFailure(fnOut.calls[c].isUpdate,
                                                                        fnOut.calls[c].isPolling)
                                                     THEN <<>> ELSE @],
                                   fnOut.calls[c].isPolling)]
    /\ UNCHANGED <<fnArgs, fnPc>>
    /\ PureFrame

NextLoad == \E c \in 1..NumLoads : LoadStart(c) \/ LoadResolved(c) \/ LoadRejected(c)

SpecLoad == InitLoad /\ [][NextLoad]_vars

\* ================================================================= claims
\* ---------------------------------------- what one complete run contributes
RECURSIVE BansDone(_, _, _, _)
BansDone(table, info, tier, i) ==
    IF i > Len(banEntries(info)) THEN table
    ELSE BansDone(IF banCounted(banEntries(info)[i])
                  THEN banUpsert(table, banEntries(info)[i], tier, info) ELSE table,
                  info, tier, i + 1)

RECURSIVE DuosDone(_, _, _, _, _)
DuosDone(table, p, info, tier, k) ==
    LET mates == teamMatesOf(p, info)
        role == normalizeRole(p.teamPosition)
    IN IF k > Len(mates) THEN table
       ELSE DuosDone(IF isDuo(role, normalizeRole(mates[k].teamPosition))
                     THEN duoUpsert(table, p, mates[k], role,
                                    normalizeRole(mates[k].teamPosition), tier, info)
                     ELSE table,
                     p, info, tier, k + 1)

RECURSIVE ParticipantsDone(_, _, _, _, _, _)
\* ok[j]: whether the timeline fetch for participant j answers
ParticipantsDone(b, matchId, info, tier, ok, j) ==
    IF j > Len(info.participants) THEN b
    ELSE LET p == info.participants[j]
             role == normalizeRole(p.teamPosition)
             d == contributionOf(p, info, extractTimelineData(matchTimeline(matchId),
                                                               p.participantId, ok[j]))
             key == championKey(p, role, tier, info)
             opponent == opponentOf(p, info, role)
         IN IF RoleExcluded(role) THEN ParticipantsDone(b, matchId, info, tier, ok, j + 1)
            ELSE ParticipantsDone(
                     [champion |-> WithRow(b.champion, key,
                                       The(upsertChampionStats(
                                               IF key \in DOMAIN b.champion
                                               THEN Some(b.champion[key]) ELSE None, d))),
                      matchup |-> IF opponent # None
                                  THEN matchupUpsert(b.matchup, p, The(opponent), role, tier,
                                                     info, d)
                                  ELSE b.matchup,
                      duo |-> DuosDone(b.duo, p, info, tier, 1)],
                     matchId, info, tier, ok, j + 1)

\* the buckets after one uninterrupted, unfailing processMatch of matchId on b
ProcessedOnce(b, matchId, tier, ok) ==
    ParticipantsDone([b EXCEPT !.champion = BansDone(b.champion, matchInfo(matchId), tier, 1)],
                     matchId, matchInfo(matchId), tier, ok, 1)

NoBuckets == [champion |-> EmptyTable, matchup |-> EmptyTable, duo |-> EmptyTable]

AllOk(matchId) == [j \in 1..Len(matchInfo(matchId).participants) |-> TRUE]

RECURSIVE EachOnce(_, _)
\* the buckets after each match of ids was processed exactly once
EachOnce(ids, tier) ==
    IF ids = {} THEN NoBuckets
    ELSE LET m == CHOOSE x \in ids : TRUE
         IN ProcessedOnce(EachOnce(ids \ {m}, tier), m, tier, AllOk(m))

\* the counters of the buckets: everything but the frequency maps, which
\* depend on the timeline fetches
Counters(b) ==
    [champion |-> [key \in DOMAIN b.champion |->
                      [f \in {"matches", "wins", "bans", "totalKills", "totalDeaths",
                              "totalAssists", "totalCs", "totalDuration"} |->
                          b.champion[key][f]]],
     matchup |-> b.matchup,
     duo |-> b.duo]

\* the store calls a complete run of processMatch makes, as the calls log them
ExpectedOps(info) ==
    LET ps == info.participants
        role(j) == normalizeRole(ps[j].teamPosition)
        valid == {j \in 1..Len(ps) : ~RoleExcluded(role(j))}
    IN {<<"ban", i>> : i \in {n \in 1..Len(banEntries(info)) : banCounted(banEntries(info)[n])}}
       \cup {<<"champion", j>> : j \in valid}
       \cup {<<"matchup", j>> : j \in {n \in valid : opponentOf(ps[n], info, role(n)) # None}}
       \cup UNION {{<<"duo", j, k>> :
                        k \in {n \in 1..Len(teamMatesOf(ps[j], info)) :
                                  isDuo(role(j), normalizeRole(
                                      teamMatesOf(ps[j], info)[n].teamPosition))}} :
                    j \in valid}

AllIdle == \A c \in Calls : calls[c].pc = "idle"

ScannedIds == {r.id : r \in scannedMatch}

\* ------------------------------------------------------------------- C1
\* C1: a call that finds the marker of its match id ends at that lookup with
\* status 'skipped' and the lookup changes no bucket and no marker; a call
\* that ended 'skipped' has left every bucket as it was when it began.
C1_SkipChangesNothing ==
    /\ [][\A c \in Calls :
            (/\ calls[c].pc = "check"
             /\ calls'[c] # calls[c]
             /\ calls'[c].status # "failed"
             /\ calls[c].matchId \in ScannedIds)
            => /\ calls'[c].status = "skipped"
               /\ calls'[c].pc = "idle"
               /\ Buckets' = Buckets
               /\ scannedMatch' = scannedMatch]_vars
    /\ [](\A c \in Calls : calls[c].status = "skipped" => Buckets = snap[c])

\* a second run of a match that was processed has been skipped, with buckets filled
C1_Witness ==
    \E c \in Calls :
        /\ calls[c].status = "skipped"
        /\ calls[c].matchId \in ScannedIds
        /\ DOMAIN championStat # {}
        /\ DOMAIN duoStat # {}

\* ------------------------------------------------------------------- C2
\* C2: a call has changed no bucket before its marker lookup answered; the
\* marker of a match is written only by a call that has made every ban,
\* champion, matchup and duo store call of the match, as its last step; a call
\* that failed has written no marker.
C2_MarkerLast ==
    /\ [](\A c \in Calls :
            /\ calls[c].pc = "check" => calls[c].log = {} /\ Buckets = snap[c]
            /\ calls[c].status = "failed" => <<"mark">> \notin calls[c].log)
    /\ [][scannedMatch' # scannedMatch =>
            \E c \in Calls :
                /\ calls[c].pc = "mark"
                /\ calls[c].log = ExpectedOps(infoOf(c))
                /\ calls'[c].status = "processed"
                /\ scannedMatch' = scannedMatch \cup
                       {[id |-> calls[c].matchId, patch |-> patchOf(infoOf(c)),
                         tier |-> calls[c].tier]}]_vars

\* a call wrote its marker after all its store calls, and another call failed
\* after some of its store calls
C2_Witness ==
    /\ \E c \in Calls : calls[c].status = "failed" /\ calls[c].log # {}
                        /\ calls[c].matchId \notin ScannedIds
    /\ scannedMatch # {}

\* ------------------------------------------------------------------- C3
\* C3: after a processMatch call that failed, every ban, champion, matchup and
\* duo bucket is as it was before the call.
C3_AllOrNothing == \A c \in Calls : calls[c].status = "failed" => Buckets = snap[c]

\* ------------------------------------------------------------------- C4
\* C4: once every match processMatch was called for has been processed to
\* success, failed attempts included, every bucket counter is what processing
\* each of those matches exactly once gives.
C4_ReprocessConverges ==
    (AllIdle /\ attempted = ScannedIds /\ \A c \in Calls : calls[c].status # "failed")
        => \A t \in Tiers : Counters(Buckets) = Counters(EachOnce(attempted, t))

\* ------------------------------------------------------------------- C5
\* C5: when two calls for different matches have run side by side, both have
\* status 'processed' and the buckets hold the sum of both matches'
\* contributions, frequency maps included.
C5_ConcurrentMatchesAddUp ==
    \A c, d \in Calls :
        (/\ c < d
         /\ calls[c].pc = "idle" /\ calls[d].pc = "idle"
         /\ calls[c].status \in {"processed", "failed"}
         /\ calls[d].status \in {"processed", "failed"}
         /\ calls[c].matchId # calls[d].matchId)
        => /\ calls[c].status = "processed"
           /\ calls[d].status = "processed"
           /\ Buckets = ProcessedOnce(
                            ProcessedOnce(NoBuckets, calls[c].matchId, calls[c].tier,
                                          calls[c].tlOk),
                            calls[d].matchId, calls[d].tier, calls[d].tlOk)

\* ------------------------------------------------------------------- C6
\* C6: while two calls for the same match id run side by side, no bucket
\* counter exceeds what processing that match once gives, and the match has at
\* most one marker.
C6_SameMatchOnce ==
    \A c, d \in Calls :
        (c < d /\ calls[c].status # "none" /\ calls[d].status # "none"
               /\ calls[c].matchId = calls[d].matchId)
        => LET once == EachOnce({calls[c].matchId}, calls[c].tier)
           IN /\ Cardinality({r \in scannedMatch : r.id = calls[c].matchId}) <= 1
              /\ \A key \in DOMAIN championStat :
                    /\ key \in DOMAIN once.champion
                    /\ championStat[key].bans <= once.champion[key].bans
                    /\ championStat[key].matches <= once.champion[key].matches
              /\ \A key \in DOMAIN matchupStat :
                    /\ key \in DOMAIN once.matchup
                    /\ matchupStat[key].matches <= once.matchup[key].matches
              /\ \A key \in DOMAIN duoStat :
                    /\ key \in DOMAIN once.duo
                    /\ duoStat[key].matches <= once.duo[key].matches

\* ------------------------------------------------------------------- C7
MapWinsBounded(m) == \A key \in DOMAIN m : m[key].wins <= m[key].matches

\* C7: every champion, matchup and duo bucket has 0 <= wins <= matches, and
\* every entry of every items, runes, spells and skillOrder map has
\* wins <= matches.
C7_WinsAtMostMatches ==
    /\ \A key \in DOMAIN championStat :
          LET row == championStat[key]
          IN /\ 0 <= row.wins /\ row.wins <= row.matches
             /\ MapWinsBounded(row.items) /\ MapWinsBounded(row.runes)
             /\ MapWinsBounded(row.spells) /\ MapWinsBounded(row.skillOrder)
    /\ \A key \in DOMAIN matchupStat :
          0 <= matchupStat[key].wins /\ matchupStat[key].wins <= matchupStat[key].matches
    /\ \A key \in DOMAIN duoStat :
          0 <= duoStat[key].wins /\ duoStat[key].wins <= duoStat[key].matches

\* a champion bucket merged from a won and a lost contribution after a failed
\* call, with its maps filled
C7_Witness ==
    \E key \in DOMAIN championStat :
        /\ championStat[key].matches >= 2
        /\ championStat[key].wins >= 1
        /\ championStat[key].wins < championStat[key].matches
        /\ \E item \in DOMAIN championStat[key].items :
              championStat[key].items[item].matches >= 2
        /\ DOMAIN matchupStat # {} /\ DOMAIN duoStat # {}

\* ------------------------------------------------------------------- C8
MapNames == {"items", "runes", "spells", "skillOrder"}

SumEntry(a, b) == [wins |-> a.wins + b.wins, matches |-> a.matches + b.matches]

Purchase(id) == ItemEvent("ITEM_PURCHASED", 1, 5000, id, 0, 0)

\* the stream is [PURCHASE(a), PURCHASE(b), undo] and has been consumed
IsPurchasePurchaseUndo(a, b) ==
    /\ Len(allItemEventsV) = 3
    /\ evIdx = 3
    /\ allItemEventsV[1] = Purchase(a)
    /\ allItemEventsV[2] = Purchase(b)
    /\ allItemEventsV[3].type = "ITEM_UNDO"

\* C9 as stated: cleaning [PURCHASE(A), PURCHASE(B), UNDO(afterId = B)] yields
\* [PURCHASE(A)].
C9_UndoByAfterId ==
    \A a, b \in StreamItems :
        (IsPurchasePurchaseUndo(a, b) /\ allItemEventsV[3].afterId = b)
            => cleanEvents = <<Purchase(a)>>

\* C9 as amended: cleaning [PURCHASE(A), PURCHASE(B), UNDO(beforeId = B)]
\* yields [PURCHASE(A)]: an undo whose beforeId is the item of the most recent
\* remaining purchase cancels that purchase.
C9_UndoByBeforeId ==
    \A a, b \in StreamItems :
        (IsPurchasePurchaseUndo(a, b) /\ allItemEventsV[3].beforeId = b)
            => cleanEvents = <<Purchase(a)>>

\* [PURCHASE(A), PURCHASE(B), UNDO(beforeId = B, afterId = 0)], A # B, cleaned
C9_Witness ==
    \E a, b \in StreamItems :
        /\ a # b
        /\ IsPurchasePurchaseUndo(a, b)
        /\ allItemEventsV[3].beforeId = b
        /\ allItemEventsV[3].afterId = 0
        /\ cleanEvents = <<Purchase(a)>>

\* ------------------------------------------------------------------ C10
RECURSIVE IsSubseq(_, _)
\* a is b with some elements left out
IsSubseq(a, b) ==
    IF Len(a) = 0 THEN TRUE
    ELSE IF Len(b) = 0 THEN FALSE
    ELSE IF a[1] = b[1] THEN IsSubseq(Tail(a), Tail(b))
    ELSE IsSubseq(a, Tail(b))

\* the undo names the event: a purchase by beforeId, a sale by afterId
UndoNames(ev, undo) ==
    \/ ev.type = "ITEM_PURCHASED" /\ ev.itemId = undo.beforeId
    \/ ev.type = "ITEM_SOLD" /\ ev.itemId = undo.afterId

\* C10: an ITEM_UNDO removes the last event of the clean list when it names
\* that event and otherwise changes nothing (on an empty list too), so only
\* the last event is ever removed; the clean list is always an
\* order-preserving subsequence of the purchase and sale events consumed.
C10_UndoOnlyPopsLast ==
    /\ [][(evIdx' = evIdx + 1 /\ allItemEventsV[evIdx + 1].type = "ITEM_UNDO") =>
            LET undo == allItemEventsV[evIdx + 1]
                n == Len(cleanEvents)
            IN IF n >= 1 /\ UndoNames(cleanEvents[n], undo)
               THEN cleanEvents' = SubSeq(cleanEvents, 1, n - 1)
               ELSE cleanEvents' = cleanEvents]_vars
    /\ [](IsSubseq(cleanEvents,
                   SelectSeq(SubSeq(allItemEventsV, 1, evIdx),
                             LAMBDA e : e.type \in {"ITEM_PURCHASED", "ITEM_SOLD"})))

\* an undo that names the first of two clean events but not the last one has
\* been consumed and both events are still there
C10_Witness ==
    /\ Len(allItemEventsV) = 3
    /\ evIdx = 3
    /\ allItemEventsV[3].type = "ITEM_UNDO"
    /\ allItemEventsV[1].type = "ITEM_PURCHASED"
    /\ UndoNames(allItemEventsV[1], allItemEventsV[3])
    /\ ~UndoNames(allItemEventsV[2], allItemEventsV[3])
    /\ cleanEvents = <<allItemEventsV[1], allItemEventsV[2]>>

\* ------------------------------------------------------------------ C11
\* the non-ignored, non-empty ids of the slots, ascending
KeptIds(slots) ==
    SortSeq(SelectSeq(slots, LAMBDA id : id # 0 /\ id \notin IGNORED_ITEMS),
            LAMBDA a, b : a < b)

\* C11: for two participants whose six final slots hold the same ids in
\* another slot order, with their purchase events in any order, extractItems
\* produces the same final-build key, the kept ids ascending and joined by
\* '-', with the same counts, and the same per-item entries; with no kept id
\* there is no final-build key.
C11_BuildKeyOrderFree ==
    fnPc = "done" =>
        LET key == JoinInts(KeptIds(fnArgs.p1.items), "-")
            plain == {key} \cup {ToString(id) : id \in Range(KeptIds(fnArgs.p1.items))}
        IN /\ key = JoinInts(KeptIds(fnArgs.p2.items), "-")
           /\ key # "" =>
                 /\ plain \subseteq DOMAIN fnOut[1]
                 /\ plain \subseteq DOMAIN fnOut[2]
                 /\ \A k \in plain : fnOut[1][k] = fnOut[2][k]
           /\ key = "" => "" \notin DOMAIN fnOut[1] \cup DOMAIN fnOut[2]

\* two kept items in different slot orders, mined with the purchases in
\* different orders
C11_Witness ==
    /\ fnPc = "done"
    /\ fnArgs.p1.items # fnArgs.p2.items
    /\ fnArgs.ev1 # fnArgs.ev2
    /\ KeptIds(fnArgs.p1.items) = <<3006, 3089>>
    /\ fnArgs.p1.items[1] = 3089 /\ fnArgs.p2.items[1] = 3006
    /\ "3006-3089" \in DOMAIN fnOut[1] \cap DOMAIN fnOut[2]

\* ------------------------------------------------------------------ C12
StandardRoles == {"TOP", "JUNGLE", "MID", "ADC", "SUPPORT"}

\* C12: a participant whose position does not normalize to TOP, JUNGLE, MID,
\* ADC or SUPPORT gets no champion, matchup or duo store call, so no bucket has
\* another role (ALL, the ban buckets, aside).
C12_InvalidPositionExcluded ==
    /\ \A c \in Calls : \A op \in calls[c].log :
          op[1] \in {"champion", "matchup", "duo"} =>
              normalizeRole(matchInfo(calls[c].matchId).participants[op[2]].teamPosition)
                  \in StandardRoles
    /\ \A key \in DOMAIN championStat : key[2] \in StandardRoles \cup {"ALL"}
    /\ \A key \in DOMAIN matchupStat : key[3] \in StandardRoles
    /\ \A key \in DOMAIN duoStat : key[3] \in StandardRoles /\ key[4] \in StandardRoles

\* ------------------------------------------------------------------ C13
\* the final-build key and the per-item keys of a participant
PlainItemKeys(p) ==
    LET kept == KeptIds(p.items)
    IN (IF Len(kept) > 0 THEN {JoinInts(kept, "-")} ELSE {})
       \cup {ToString(id) : id \in Range(kept)}

\* C13: a timeline fetch that fails does not fail the call, which goes on to
\* the participant's champion write; that write adds to the items map only the
\* final-build key and the per-item keys and adds nothing to the skill-order
\* map; and a call that ended 'processed', failed timelines or not, has made
\* every store call of the match and written the marker.
C13_TimelineFailureNotFatal ==
    /\ [][\A c \in Calls :
            (calls[c].pc = "part" /\ calls'[c] # calls[c]) =>
                /\ calls'[c].status = "running"
                /\ calls'[c].pc \in {"champFind", "part", "mark"}
                /\ (calls'[c].pc = "champFind" /\ ~calls'[c].tlOk[calls[c].j]) =>
                       calls'[c].tl = [skillOrderString |-> "", cleanEvents |-> <<>>]]_vars
    /\ [][\A c \in Calls :
            (/\ calls[c].pc = "champWrite" /\ calls'[c].pc = "matchup"
             /\ ~calls[c].tlOk[calls[c].j]) =>
                LET info == matchInfo(calls[c].matchId)
                    p == info.participants[calls[c].j]
                    key == championKey(p, normalizeRole(p.teamPosition), calls[c].tier, info)
                    old == IF key \in DOMAIN championStat
                           THEN championStat[key]
                           ELSE [items |-> EmptyMap, skillOrder |-> EmptyMap]
                    new == championStat'[key]
                IN /\ PlainItemKeys(p) \subseteq DOMAIN new.items
                   /\ \A k \in DOMAIN new.items \ PlainItemKeys(p) :
                         k \in DOMAIN old.items /\ new.items[k] = old.items[k]
                   /\ new.skillOrder = old.skillOrder]_vars
    /\ [](\A c \in Calls :
            calls[c].status = "processed" =>
                /\ calls[c].matchId \in ScannedIds
                /\ calls[c].log = ExpectedOps(matchInfo(calls[c].matchId)) \cup {<<"mark">>})

\* a call ended 'processed' although the timeline fetch failed for Ahri, whose
\* timeline holds purchases and skill events; her bucket has no mined key
C13_Witness ==
    \E c \in Calls :
        /\ calls[c].status = "processed"
        /\ calls[c].matchId = "EUW1_1"
        /\ ~calls[c].tlOk[1]
        /\ Len(extractTimelineData(matchTimeline("EUW1_1"), 1, TRUE).cleanEvents) > 0
        /\ \E key \in DOMAIN championStat :
              /\ key[1] = "Ahri" /\ key[2] = "MID"
              /\ championStat[key].matches = 1
              /\ DOMAIN championStat[key].items = {"3006-3089", "3006", "3089"}
              /\ championStat[key].skillOrder = EmptyMap

\* ------------------------------------------------------------------ C14
\* the unordered role pairs that make a duo
DuoPairings == {{"MID", "JUNGLE"}, {"ADC", "SUPPORT"}, {"TOP", "JUNGLE"}}

\* the ordered pairs of teammates of the match whose roles make a duo
DuoMates(info) ==
    {pr \in (1..Len(info.participants)) \X (1..Len(info.participants)) :
        /\ pr[1] # pr[2]
        /\ info.participants[pr[1]].teamId = info.participants[pr[2]].teamId
        /\ {normalizeRole(info.participants[pr[1]].teamPosition),
             normalizeRole(info.participants[pr[2]].teamPosition)} \in DuoPairings}

\* the duo bucket of an ordered pair: (champA, champB, roleA, roleB, tier, patch)
DuoBucketOf(pr, info, tier) ==
    <<info.participants[pr[1]].championName, info.participants[pr[2]].championName,
      normalizeRole(info.participants[pr[1]].teamPosition),
      normalizeRole(info.participants[pr[2]].teamPosition), tier, patchOf(info)>>

\* C14: a call that ended 'processed' has added to the duo buckets exactly one
\* match, and the pair's win, for each ordered pair of teammates whose roles
\* form {MID,JUNGLE}, {ADC,SUPPORT} or {TOP,JUNGLE}: both directions of a pair,
\* nothing for any other pairing or for players of opposite teams.
C14_DuoBothWays ==
    \A c \in Calls :
        (calls[c].status = "processed" /\ AllIdle) =>
            LET info == matchInfo(calls[c].matchId)
                old == snap[c].duo
                was(key) == IF key \in DOMAIN old THEN old[key] ELSE [matches |-> 0, wins |-> 0]
                hits(key) == {pr \in DuoMates(info) : DuoBucketOf(pr, info, calls[c].tier) = key}
            IN /\ DOMAIN duoStat =
                     DOMAIN old \cup {DuoBucketOf(pr, info, calls[c].tier) : pr \in DuoMates(info)}
               /\ \A key \in DOMAIN duoStat :
                     /\ duoStat[key].matches = was(key).matches + Cardinality(hits(key))
                     /\ duoStat[key].wins = was(key).wins
                            + Cardinality({pr \in hits(key) : info.participants[pr[1]].win})
               /\ \A pr \in DuoMates(info) :
                     /\ Cardinality(hits(DuoBucketOf(pr, info, calls[c].tier))) = 1
                     /\ DuoBucketOf(<<pr[2], pr[1]>>, info, calls[c].tier) \in DOMAIN duoStat
                     /\ info.participants[pr[1]].win = info.participants[pr[2]].win

\* the match with a MID and a JUNGLE teammate and an opposing MID was
\* processed: both directions are there, once, and nothing else
C14_Witness ==
    \E c \in Calls :
        /\ calls[c].status = "processed" /\ AllIdle
        /\ calls[c].matchId = "EUW1_1"
        /\ snap[c].duo = EmptyTable
        /\ DOMAIN duoStat = {<<"Ahri", "LeeSin", "MID", "JUNGLE", "CHALLENGER", "14.1">>,
                              <<"LeeSin", "Ahri", "JUNGLE", "MID", "CHALLENGER", "14.1">>}
        /\ \A key \in DOMAIN duoStat : duoStat[key] = [matches |-> 1, wins |-> 1]

\* the match whose only teammates with roles are a MID and a TOP was
\* processed and has added no duo bucket
C14_WitnessMidTop ==
    \E c \in Calls :
        /\ calls[c].status = "processed" /\ AllIdle
        /\ calls[c].matchId = "EUW1_3"
        /\ duoStat = snap[c].duo

\* ------------------------------------------------------------------ C15
\* the ban entries of the match that name champion ch
BansOf(info, ch) ==
    {i \in 1..Len(banEntries(info)) :
        /\ banEntries(info)[i].championId # -1
        /\ champMap(banEntries(info)[i].championId) = ch}

ChampionNames == {"Ahri", "Zed", "LeeSin"}

\* C15: a call that ended 'processed' has added to `bans` of the role=ALL
\* bucket of each champion (tier, patch and duration bucket of the match) the
\* number of ban entries, over both teams, that name it; an entry with id -1
\* or an id the champion map does not know changes nothing; and a ban step
\* changes no bucket's matches or wins.
C15_BansCounted ==
    /\ [](\A c \in Calls :
            (calls[c].status = "processed" /\ AllIdle) =>
                LET info == matchInfo(calls[c].matchId)
                    old == snap[c].champion
                IN \A key \in DOMAIN championStat :
                      key[2] = "ALL" =>
                          /\ key[1] \in ChampionNames
                          /\ championStat[key].bans =
                                 (IF key \in DOMAIN old THEN old[key].bans ELSE 0)
                                 + (IF key = <<key[1], "ALL", calls[c].tier, patchOf(info),
                                               info.durationBucket>>
                                    THEN Cardinality(BansOf(info, key[1])) ELSE 0))
    /\ [][\A c \in Calls :
            (calls[c].pc = "bans" /\ calls'[c] # calls[c] /\ calls'[c].status = "running") =>
                LET ban == banEntries(matchInfo(calls[c].matchId))[calls[c].i]
                IN /\ matchupStat' = matchupStat /\ duoStat' = duoStat
                   /\ (ban.championId = -1 \/ champMap(ban.championId) = NULL)
                          => championStat' = championStat
                   /\ \A key \in DOMAIN championStat' :
                         IF key \in DOMAIN championStat
                         THEN /\ championStat'[key].matches = championStat[key].matches
                              /\ championStat'[key].wins = championStat[key].wins
                         ELSE /\ championStat'[key].matches = 0
                              /\ championStat'[key].wins = 0]_vars

\* the match in which both teams banned Zed and one ban slot was empty (-1)
\* was processed: Zed's role=ALL bucket has bans = 2
C15_Witness ==
    \E c \in Calls :
        /\ calls[c].status = "processed" /\ AllIdle
        /\ calls[c].matchId = "EUW1_1"
        /\ snap[c].champion = EmptyTable
        /\ championStat[<<"Zed", "ALL", "CHALLENGER", "14.1", "MEDIUM">>].bans = 2
        /\ championStat[<<"Zed", "ALL", "CHALLENGER", "14.1", "MEDIUM">>].matches = 0

\* ------------------------------------------------------------------ C16
\* concurrent calls against a store that holds one processed match already
InitWarm ==
    /\ scannedMatch = {[id |-> "EUW1_1", patch |-> patchOf(matchInfo("EUW1_1")),
                         tier |-> "CHALLENGER"]}
    /\ championStat = EachOnce({"EUW1_1"}, "CHALLENGER").champion
    /\ matchupStat = EachOnce({"EUW1_1"}, "CHALLENGER").matchup
    /\ duoStat = EachOnce({"EUW1_1"}, "CHALLENGER").duo
    /\ calls = [c \in Calls |-> IdleCall]
    /\ runs = 0
    /\ tlFailures = 0
    /\ snap = [c \in Calls |-> NoBuckets]
    /\ attempted = {"EUW1_1"}
    /\ InitCleanIdle /\ InitMergeIdle /\ InitPureIdle

SpecWarm == InitWarm /\ [][NextConc]_vars

\* the store InitWarm starts from, reached by processing the match
WarmReached ==
    /\ AllIdle
    /\ ScannedIds = {"EUW1_1"}
    /\ Buckets = EachOnce({"EUW1_1"}, "CHALLENGER")

MapNeverShrinks(old, new) ==
    \A k \in DOMAIN old :
        /\ k \in DOMAIN new
        /\ new[k].wins >= old[k].wins
        /\ new[k].matches >= old[k].matches

\* C16: no step deletes a bucket or decreases its matches, wins, bans, a sum
\* accumulator, or the wins or matches of a frequency-map key it has.
C16_AppendOnly ==
    [][/\ \A key \in DOMAIN championStat :
            /\ key \in DOMAIN championStat'
            /\ \A f \in {"matches", "wins", "bans", "totalKills", "totalDeaths",
                          "totalAssists", "totalCs", "totalDuration"} :
                  championStat'[key][f] >= championStat[key][f]
            /\ \A f \in MapNames : MapNeverShrinks(championStat[key][f], championStat'[key][f])
       /\ \A key \in DOMAIN matchupStat :
            /\ key \in DOMAIN matchupStat'
            /\ \A f \in {"matches", "wins", "totalKills", "totalDeaths", "totalAssists",
                          "totalCs", "totalDuration"} :
                  matchupStat'[key][f] >= matchupStat[key][f]
       /\ \A key \in DOMAIN duoStat :
            /\ key \in DOMAIN duoStat'
            /\ duoStat'[key].matches >= duoStat[key].matches
            /\ duoStat'[key].wins >= duoStat[key].wins]_vars


\* ------------------------------------------------------------------- C17
\* the (key, totalKey, shareKey) triples getBaselineMean is called with
BaselineKeys ==
    {<<"kda", "totalKills", NULL>>, <<"damage", "totalDamage", "totalDamageShare">>,
     <<"gold", "totalGold", "totalGoldShare">>, <<"cs", "totalCs", NULL>>,
     <<"vision", "totalVision", NULL>>,
     <<"objective", "totalObjectiveParticipation", NULL>>}

\* the hard-coded default of a key
BaselineDefault(key) ==
    CASE key = "kda" -> Rat(3, 1) [] key = "damage" -> Rat(600, 1)
      [] key = "gold" -> Rat(400, 1) [] key = "cs" -> Rat(6, 1)
      [] key = "vision" -> Rat(1, 1) [] key = "objective" -> Rat(0, 1)

\* the mean of a row, or the fallback when there is no row with matches > 0
\* or the row has no mean for the key
MeanOr(row, k, fallback) ==
    IF row # None /\ Less(Rat(0, 1), The(row).matches)
       /\ extractMeanFromStats(The(row), k[1], k[2], k[3]) # None
    THEN The(extractMeanFromStats(The(row), k[1], k[2], k[3]))
    ELSE fallback

\* a lies between b and c, ends included
Between(a, b, c) ==
    \/ ~Less(a, b) /\ ~Less(c, a)
    \/ ~Less(a, c) /\ ~Less(b, a)

\* |a - b|
Distance(a, b) == IF Less(a, b) THEN Calc(b, "-", a) ELSE Calc(a, "-", b)

InClip(z) == z # NaN /\ ~Less(z, Rat(-3, 1)) /\ ~Less(Rat(3, 1), z)

\* the keys of the weighted sum: the seven metrics, and the lane with laneStats
SumKeys ==
    {"damage", "gold", "cs", "kda", "vision", "objective", "utility"}
    \cup (IF fnArgs.laneStats # None THEN {"lane"} ELSE {})

\* C18: every term of the weighted sum of calculateScore, the seven metrics
\* and the lane term when there are lane statistics, is a z-score within
\* [-3, 3], whatever the inputs (zero duration, missing fields, raw z-scores that
\* are NaN or infinite); the weighted average that the logistic transform
\* receives is within [-3, 3] too.
C18_TermsClipped ==
    fnPc \in {"final", "done"} /\ "terms" \in DOMAIN fnOut =>
      /\ DOMAIN fnOut.terms = SumKeys
      /\ \A key \in SumKeys :
           /\ InClip(fnOut.terms[key])
           /\ InClip(fnOut.zScores[key]) => fnOut.terms[key] = fnOut.zScores[key]
      /\ InClip(fnOut.rawScore)
      /\ fnPc = "done" => fnOut.base = transformToScore(fnOut.rawScore)

\* a game of zero duration with lane statistics: one raw z-score is NaN,
\* another is infinite, and the sum was taken
C18_Witness ==
    /\ fnPc = "final" /\ "terms" \in DOMAIN fnOut
    /\ fnArgs.duration = Rat(0, 1)
    /\ fnArgs.laneStats # None
    /\ fnOut.zScores.utility = NaN /\ fnOut.terms.utility = Rat(0, 1)
    /\ fnOut.zScores.cs = Rat(1, 0) /\ fnOut.terms.cs = Rat(3, 1)
    /\ Less(Rat(3, 1), fnOut.zScores.lane) /\ fnOut.terms.lane = Rat(3, 1)

C20_GradeOfReportedScore ==
    fnPc = "done" /\ "result" \in DOMAIN fnOut =>
      fnOut.result.grade = getGrade(fnOut.result.score)

\* the average participant, no rows: base score 50, won, win rate 0.43 and the
\* contribution bonus give 74.77, reported as 75 with the grade of 74.77
C20_RoundedAcrossThreshold ==
    /\ fnPc = "done" /\ "result" \in DOMAIN fnOut
    /\ fnOut.rawScore = Rat(0, 1)
    /\ fnOut.finalScore = Rat(3215, 43)
    /\ fnOut.result.score = Rat(75, 1)
    /\ fnOut.result.grade = "B"

\* ---------------------------------------------------------------- C21
\* C21: generateDailyHeatmap returns exactly 120 entries, one for each
\* calendar day of the 120 days that end today (today being the day of the
\* call, in local or in UTC reckoning), oldest first and all dates distinct;
\* with no matches every entry has games = 0 and intensity = 0.
HeatEndsAt(heatmap, last) ==
    \A k \in 1..Len(heatmap) : heatmap[k].date = last - (Len(heatmap) - k)

C21_HeatmapWindow ==
    fnPc = "heatDone" =>
        /\ Len(fnOut.heatmap) = 120
        /\ \/ HeatEndsAt(fnOut.heatmap, fnArgs.today.day)
           \/ HeatEndsAt(fnOut.heatmap,
                         isoDate(fnArgs.tz, fnArgs.today.day, fnArgs.today.hour))
        /\ fnArgs.heatmapData = <<>> =>
              \A k \in 1..Len(fnOut.heatmap) :
                  fnOut.heatmap[k].games = 0 /\ fnOut.heatmap[k].intensity = 0

\* the returned list names one date twice
C21_DateTwice ==
    /\ fnPc = "heatDone"
    /\ Len(fnOut.heatmap) = 120
    /\ \E k \in 1..(Len(fnOut.heatmap) - 1) :
          fnOut.heatmap[k].date = fnOut.heatmap[k + 1].date

\* ---------------------------------------------------------------- C22
\* C22: in a batch processed concurrently, a match that fails (non-OK
\* response, malformed JSON, store error) affects only itself: when the run
\* of the batch ends every match of the batch has been attempted, the count
\* of processed matches is the number of matches that did not fail, and the
\* run does end, by returning.
BatchFailures == {"nonOk", "malformed", "storeError"}

BatchEnded ==
    fnPc \in {"batchDone", "batchFailed"} =>
        /\ fnPc = "batchDone"
        /\ \A i \in DOMAIN fnOut.outcome : fnOut.outcome[i] \notin {"pending", "started"}
        /\ fnOut.processedCount =
              Cardinality({i \in DOMAIN fnOut.outcome : fnOut.outcome[i] = "processed"})

ChampionContributors(key) ==
    {x \in UNION {{<<m, j>> : j \in 1..Len(matchInfo(m).participants)} : m \in ScannedIds} :
        /\ normalizeRole(matchInfo(x[1]).participants[x[2]].teamPosition) \in StandardRoles
        /\ championKey(matchInfo(x[1]).participants[x[2]],
                       normalizeRole(matchInfo(x[1]).participants[x[2]].teamPosition),
                       key[3], matchInfo(x[1])) = key}

\* what a contributor adds to an accumulator of its bucket
AccumulatorValue(x, f) ==
    CASE f = "matches"       -> 1
      [] f = "wins"          -> WinInc(matchInfo(x[1]).participants[x[2]].win)
      [] f = "totalKills"    -> matchInfo(x[1]).participants[x[2]].kills
      [] f = "totalDeaths"   -> matchInfo(x[1]).participants[x[2]].deaths
      [] f = "totalAssists"  -> matchInfo(x[1]).participants[x[2]].assists
      [] f = "totalCs"       -> csOf(matchInfo(x[1]).participants[x[2]])
      [] f = "totalDuration" -> matchInfo(x[1]).gameDuration

RECURSIVE AccumulatorSum(_, _)
AccumulatorSum(S, f) ==
    IF S = {} THEN 0
    ELSE LET x == CHOOSE y \in S : TRUE
         IN AccumulatorValue(x, f) + AccumulatorSum(S \ {x}, f)

\* every processMatch call so far processed another match to its marker
DistinctMatchesProcessed ==
    AllIdle /\ runs > 0 /\ runs = Cardinality(ScannedIds)

\* C23: after distinct matches were processed one after the other without a
\* failure, every champion bucket holds, in matches, wins and each sum, the
\* total over the participants of those matches that have its key and a valid
\* role (one of TOP, JUNGLE, MID, ADC, SUPPORT), and every such participant
\* has its bucket.
C23_ChampionTotals ==
    DistinctMatchesProcessed =>
        /\ \A key \in DOMAIN championStat :
              \A f \in {"matches", "wins", "totalKills", "totalDeaths", "totalAssists",
                        "totalCs", "totalDuration"} :
                  championStat[key][f] = AccumulatorSum(ChampionContributors(key), f)
        /\ \A t \in Tiers, m \in ScannedIds : \A j \in 1..Len(matchInfo(m).participants) :
              normalizeRole(matchInfo(m).participants[j].teamPosition) \in StandardRoles
                  => championKey(matchInfo(m).participants[j],
                                 normalizeRole(matchInfo(m).participants[j].teamPosition),
                                 t, matchInfo(m)) \in DOMAIN championStat

\* two matches were processed and a bucket with a role outside the five holds
\* a match
C23_BucketOfNoValidRole ==
    /\ DistinctMatchesProcessed
    /\ runs = 2
    /\ \E key \in DOMAIN championStat :
          /\ key[2] \notin StandardRoles \cup {"ALL"}
          /\ championStat[key].matches = 1
          /\ ChampionContributors(key) = {}

\* ------------------------------------------------------------------ C24
\* the participants of the opposing team that have the normalized role of
\* participant j of match m, by index
OpposingSameRole(m, j) ==
    {k \in 1..Len(matchInfo(m).participants) :
        /\ matchInfo(m).participants[k].teamId # matchInfo(m).participants[j].teamId
        /\ normalizeRole(matchInfo(m).participants[k].teamPosition)
               = normalizeRole(matchInfo(m).participants[j].teamPosition)}

\* the valid participants of the processed matches that have an opponent
MatchupContributors ==
    {x \in UNION {{<<m, j>> : j \in 1..Len(matchInfo(m).participants)} : m \in ScannedIds} :
        /\ normalizeRole(matchInfo(x[1]).participants[x[2]].teamPosition) \in StandardRoles
        /\ OpposingSameRole(x[1], x[2]) # {}}

\* the matchup key of a contributor, against the first opposing participant
\* of its role
MatchupKeyOf(x, tier) ==
    <<matchInfo(x[1]).participants[x[2]].championName,
      matchInfo(x[1]).participants[
          CHOOSE k \in OpposingSameRole(x[1], x[2]) :
              \A q \in OpposingSameRole(x[1], x[2]) : k <= q].championName,
      normalizeRole(matchInfo(x[1]).participants[x[2]].teamPosition),
      tier, patchOf(matchInfo(x[1])), matchInfo(x[1]).durationBucket>>

\* C24: a valid participant makes one matchup upsert, on the bucket of
\* (own champion, opponent champion, role, tier, patch, duration bucket), when
\* the opposing team has a participant of its normalized role, and none when
\* it has not; so after distinct matches were processed every matchup bucket
\* counts exactly the participants with that key, and the opponent of a key is
\* of the other team.
C24_OneMatchupPerOpponent ==
    /\ \A c \in Calls : calls[c].status = "processed" =>
          \A j \in 1..Len(matchInfo(calls[c].matchId).participants) :
              normalizeRole(matchInfo(calls[c].matchId).participants[j].teamPosition)
                      \in StandardRoles
                  => (<<"matchup", j>> \in calls[c].log
                          <=> OpposingSameRole(calls[c].matchId, j) # {})
    /\ DistinctMatchesProcessed =>
          \A t \in Tiers :
              /\ \A key \in DOMAIN matchupStat :
                    key[3] \in StandardRoles =>
                        /\ matchupStat[key].matches =
                              Cardinality({x \in MatchupContributors : MatchupKeyOf(x, t) = key})
                        /\ matchupStat[key].wins =
                              Cardinality({x \in MatchupContributors :
                                  /\ MatchupKeyOf(x, t) = key
                                  /\ matchInfo(x[1]).participants[x[2]].win})
              /\ \A x \in MatchupContributors : MatchupKeyOf(x, t) \in DOMAIN matchupStat

\* two matches were processed: a matchup bucket holds both, and a valid
\* participant without an opponent made no matchup upsert
C24_Witness ==
    /\ DistinctMatchesProcessed
    /\ \E key \in DOMAIN matchupStat : matchupStat[key].matches = 2
    /\ \E c \in Calls : calls[c].status = "processed" /\
          \E j \in 1..Len(matchInfo(calls[c].matchId).participants) :
              /\ normalizeRole(matchInfo(calls[c].matchId).participants[j].teamPosition)
                     \in StandardRoles
              /\ OpposingSameRole(calls[c].matchId, j) = {}
              /\ <<"champion", j>> \in calls[c].log
              /\ <<"matchup", j>> \notin calls[c].log

\* ------------------------------------------------- C25, C26, C27: helpers
RECURSIVE AscendingIds(_, _)
\* the item ids of the events of ev at the positions S, smallest id first
AscendingIds(ev, S) ==
    IF S = {} THEN <<>>
    ELSE LET i == CHOOSE n \in S : \A q \in S : ev[n].itemId <= ev[q].itemId
         IN <<ev[i].itemId>> \o AscendingIds(ev, S \ {i})

RECURSIVE InEventOrder(_, _)
\* the item ids of the events of ev at the positions S, earliest event first
InEventOrder(ev, S) ==
    IF S = {} THEN <<>>
    ELSE LET i == CHOOSE n \in S : \A q \in S : n <= q
         IN <<ev[i].itemId>> \o InEventOrder(ev, S \ {i})

\* the purchases of the first minute of an item that is no vision item
StartPurchases(ev) ==
    {i \in 1..Len(ev) : /\ ev[i].type = "ITEM_PURCHASED"
                        /\ ev[i].timestamp <= 60000
                        /\ ev[i].itemId \notin {3340, 3363, 3364, 3330, 2055, 2049, 2045, 2044}}

ExpectedStartKeys(ev) ==
    IF StartPurchases(ev) = {} THEN {}
    ELSE {"start_" \o JoinInts(AscendingIds(ev, StartPurchases(ev)), "-")}

\* the purchases of an item of the final build that is tagged Boots or has no
\* upgrade path, each item at its first such purchase
CorePurchases(ev, p) ==
    LET final == {p.items[n] : n \in 1..6} \ ({0} \cup IGNORED_ITEMS)
        counts(i) == /\ ev[i].type = "ITEM_PURCHASED"
                     /\ ev[i].itemId \in final
                     /\ \/ itemMap(ev[i].itemId) = None
                        \/ "Boots" \in The(itemMap(ev[i].itemId)).tags
                        \/ The(itemMap(ev[i].itemId)).into = <<>>
    IN {i \in 1..Len(ev) : counts(i) /\ \A q \in 1..(i - 1) :
                                            counts(q) => ev[q].itemId # ev[i].itemId}

CoreOrder(ev, p) == InEventOrder(ev, CorePurchases(ev, p))

ExpectedCoreKeys(order) ==
    IF order = <<>> THEN {}
    ELSE {"core_" \o JoinInts(SubSeq(order, 1, IF Len(order) < 3 THEN Len(order) ELSE 3), "-")}

ExpectedSlotKeys(order) ==
    {"core_" \o JoinInts(SubSeq(order, 1, 3), "-") \o "_slot" \o ToString(n) \o "_"
         \o ToString(order[n]) : n \in {q \in 4..6 : q <= Len(order)}}

\* every key of keys is in the map with one match, won or not as the game was
CountedOnce(items, keys, win) ==
    \A k \in keys : k \in DOMAIN items /\ items[k] = [wins |-> WinInc(win), matches |-> 1]

C26_CoreKey ==
    fnPc = "mined" =>
        /\ DOMAIN fnOut.items
               \ (PlainItemKeys(fnArgs.p)
                  \cup ExpectedStartKeys(fnOut.tl.cleanEvents)
                  \cup ExpectedSlotKeys(CoreOrder(fnOut.tl.cleanEvents, fnArgs.p)))
             = ExpectedCoreKeys(CoreOrder(fnOut.tl.cleanEvents, fnArgs.p))
        /\ CountedOnce(fnOut.items,
                       ExpectedCoreKeys(CoreOrder(fnOut.tl.cleanEvents, fnArgs.p)),
                       fnArgs.p.win)

\* a final build with boots that have an upgrade path, a component and an
\* ignored item, all three purchased: the core is the boots and the one item
\* without upgrade path
C26_Witness ==
    /\ fnPc = "mined"
    /\ fnArgs.p.items = <<1001, 1038, 3089, 3340, 1055, 0>>
    /\ \A i \in {1, 2, 3, 9} : PathPool[i] \in Range(fnArgs.events)
    /\ "core_1001-3089" \in DOMAIN fnOut.items

\* a full build whose fourth purchase was undone and whose boots were bought
\* twice: the core is the first three items
C26_WitnessUndone ==
    /\ fnPc = "mined"
    /\ fnArgs.p.items = <<3006, 3031, 3089, 3157, 3135, 3165>>
    /\ \A i \in {13, 14, 15} : PathPool[i] \in Range(fnArgs.events)
    /\ "core_3006-3031-3089" \in DOMAIN fnOut.items

\* ------------------------------------------------------------------ C27
\* C27: beside the final-build, per-item, start and core keys, the items hold
\* exactly the keys <core key>_slotN_<item id> for the N in 4, 5, 6 up to the
\* length of the deduplicated order of core-eligible purchases, the item being
\* the N-th of that order: one key for a slot at most, and none unless the
\* core has three items.
C27_SlotKeys ==
    fnPc = "mined" =>
        /\ DOMAIN fnOut.items
               \ (PlainItemKeys(fnArgs.p)
                  \cup ExpectedStartKeys(fnOut.tl.cleanEvents)
                  \cup ExpectedCoreKeys(CoreOrder(fnOut.tl.cleanEvents, fnArgs.p)))
             = ExpectedSlotKeys(CoreOrder(fnOut.tl.cleanEvents, fnArgs.p))
        /\ CountedOnce(fnOut.items,
                       ExpectedSlotKeys(CoreOrder(fnOut.tl.cleanEvents, fnArgs.p)),
                       fnArgs.p.win)
        /\ Cardinality(ExpectedSlotKeys(CoreOrder(fnOut.tl.cleanEvents, fnArgs.p)))
               = IF Len(CoreOrder(fnOut.tl.cleanEvents, fnArgs.p)) <= 3 THEN 0
                 ELSE Len(CoreOrder(fnOut.tl.cleanEvents, fnArgs.p)) - 3

\* six items in the order: the three slot keys name the fourth, fifth and
\* sixth
C27_Witness ==
    /\ fnPc = "mined"
    /\ {"core_3006-3031-3089_slot4_3157", "core_3006-3031-3089_slot5_3135",
        "core_3006-3031-3089_slot6_3165"} \subseteq DOMAIN fnOut.items

\* five items in the order: no key for slot 6
C27_WitnessFive ==
    /\ fnPc = "mined"
    /\ Len(CoreOrder(fnOut.tl.cleanEvents, fnArgs.p)) = 5
    /\ "core_3006-3031-3089_slot5_3165" \in DOMAIN fnOut.items

\* ------------------------------------------------------------------ C28
\* the empirical mean of a metric in a bucket with its totals recorded
EmpiricalMean(row, m) ==
    CASE m = "kda" ->
            Calc(Calc(Calc(row.totalKills, "/", row.matches), "+",
                      Calc(row.totalAssists, "/", row.matches)),
                 "/", MathMax(Rat(1, 1), Calc(row.totalDeaths, "/", row.matches)))
      [] m = "damageShare" -> Calc(row.totalDamageShare, "/", row.matches)
      [] m = "goldShare" -> Calc(row.totalGoldShare, "/", row.matches)
      [] m = "damagePerMin" ->
            Calc(row.totalDamage, "/", Calc(row.totalDuration, "/", Rat(60, 1)))
      [] m = "goldPerMin" ->
            Calc(row.totalGold, "/", Calc(row.totalDuration, "/", Rat(60, 1)))
      [] m = "cs" -> Calc(row.totalCs, "/", Calc(row.totalDuration, "/", Rat(60, 1)))
      [] m = "vision" ->
            Calc(row.totalVision, "/", Calc(row.totalDuration, "/", Rat(60, 1)))
      [] m = "objective" -> Calc(row.totalObjectiveParticipation, "/", row.matches)

\* (value - baseline) / max(baseline * 0.4, 0.1)
ZAgainst(value, baseline) ==
    Calc(Calc(value, "-", baseline), "/",
         MathMax(Calc(baseline, "*", Rat(4, 10)), Rat(1, 10)))

\* the z-score of a metric against the empirical means of the bucket
ZOfBucket(stats, row, m) ==
    CASE m = "damage" ->
            MathMax(ZAgainst(stats.damageShare, EmpiricalMean(row, "damageShare")),
                    ZAgainst(stats.damagePerMin, EmpiricalMean(row, "damagePerMin")))
      [] m = "gold" ->
            MathMax(ZAgainst(stats.goldShare, EmpiricalMean(row, "goldShare")),
                    ZAgainst(stats.goldPerMin, EmpiricalMean(row, "goldPerMin")))
      [] OTHER -> ZAgainst(stats[m], EmpiricalMean(row, m))

\* a champion bucket with matches > 0 is supplied and no matchup bucket with
\* matches > 0, so that the baseline is the champion-level one
ChampionBaselineCase ==
    /\ fnPc = "sum" /\ "championStats" \in DOMAIN fnArgs
    /\ fnArgs.championStats # None
    /\ Less(Rat(0, 1), The(fnArgs.championStats).matches)
    /\ fnArgs.matchupStats = None \/ The(fnArgs.matchupStats).matches = Rat(0, 1)

\* C28: with a champion bucket of matches > 0 that records the totals of a
\* metric (kda, damage, gold, cs, vision, objective), the z-score of the
\* metric is taken against the empirical mean of the bucket, not against the
\* hard-coded default.
C28_EmpiricalBaseline ==
    ChampionBaselineCase =>
        \A m \in {"kda", "damage", "gold", "cs", "vision", "objective"} :
            fnOut.zScores[m] = ZOfBucket(fnOut.stats, The(fnArgs.championStats), m)

\* a bucket of 20 matches with a mean objective participation of 1/2, and a
\* participant with 2 objective takedowns: the z-score is 0, that is, taken
\* against 2
C28_ObjectiveAgainstDefault ==
    /\ ChampionBaselineCase
    /\ EmpiricalMean(The(fnArgs.championStats), "objective") = Rat(1, 2)
    /\ fnOut.stats.objective = Rat(2, 1)
    /\ fnOut.zScores.objective = Rat(0, 1)
    /\ \A m \in {"kda", "damage", "gold", "cs", "vision"} :
          fnOut.zScores[m] = ZOfBucket(fnOut.stats, The(fnArgs.championStats), m)

\* ------------------------------------------------------------------ C29
\* C29: every z-score of a result is within [-3, 3]: the values that enter
\* the weighted sum, and the per-metric values of the breakdown (kda, damage,
\* gold, vision, cs, objective, utility, and lane when there is one).
C29_BreakdownClipped ==
    (fnPc = "done" /\ "championStats" \in DOMAIN fnArgs) =>
        \A k \in DOMAIN fnOut.result.breakdown : InClip(fnOut.result.breakdown[k])

\* a result whose breakdown holds a number above 3 for a metric whose term in
\* the weighted sum was clipped to 3
C29_BreakdownAboveThree ==
    /\ fnPc = "done" /\ "championStats" \in DOMAIN fnArgs
    /\ \E k \in DOMAIN fnOut.result.breakdown :
          /\ fnOut.result.breakdown[k].d # 0
          /\ Less(Rat(3, 1), fnOut.result.breakdown[k])
          /\ clip(fnOut.zScores[k]) = Rat(3, 1)

\* ------------------------------------------------------------------ C30
GradeRank(grade) ==
    CASE grade = "D" -> 0 [] grade = "C" -> 1 [] grade = "B" -> 2
      [] grade = "A" -> 3 [] grade = "S" -> 4 [] grade = "S+" -> 5

LabelRank(label) ==
    CASE label = "POOR" -> 0 [] label = "AVERAGE" -> 1
      [] label = "GOOD" -> 2 [] label = "EXCELLENT" -> 3

\* C30: every score of [0, 100] has one grade of D, C, B, A, S, S+ and one
\* label of POOR, AVERAGE, GOOD, EXCELLENT; no lower score has a higher grade
\* or label; and the label is EXCELLENT from 75 on, GOOD from 60 to below 75,
\* AVERAGE from 40 to below 60 and POOR below 40.
C30_GradeAndLabelMonotone ==
    fnPc = "graded" =>
        /\ fnOut.grade \in {"D", "C", "B", "A", "S", "S+"}
        /\ fnOut.comparison \in {"POOR", "AVERAGE", "GOOD", "EXCELLENT"}
        /\ \A q \in 0..(100 * GradeSteps) :
              ~Less(fnArgs.finalScore, Rat(q, GradeSteps)) =>
                  /\ GradeRank(getGrade(Rat(q, GradeSteps))) <= GradeRank(fnOut.grade)
                  /\ LabelRank(getScoreLabel(Rat(q, GradeSteps)))
                         <= LabelRank(fnOut.comparison)
        /\ fnOut.comparison =
              (IF fnArgs.finalScore.n >= 75 * fnArgs.finalScore.d THEN "EXCELLENT"
               ELSE IF fnArgs.finalScore.n >= 60 * fnArgs.finalScore.d THEN "GOOD"
               ELSE IF fnArgs.finalScore.n >= 40 * fnArgs.finalScore.d THEN "AVERAGE"
               ELSE "POOR")

\* the score 75 itself: EXCELLENT, grade A
C30_Witness ==
    /\ fnPc = "graded"
    /\ fnArgs.finalScore = Rat(75, 1)
    /\ fnOut.comparison = "EXCELLENT"
    /\ fnOut.grade = "A"

\* ------------------------------------------------------------------ C31
\* the intensity the rule gives to a day of so many games and wins
ExpectedIntensity(games, wins) ==
    IF games = 0 THEN 0
    ELSE IF games \in {1, 2} THEN (IF 100 * wins >= 50 * games THEN 2 ELSE 1)
    ELSE IF 100 * wins < 40 * games THEN 2
    ELSE IF 100 * wins > 60 * games THEN 4
    ELSE 3

\* C31: every heatmap day has an intensity of 0..4, 0 exactly when it has no
\* games; with 1 or 2 games 2 for a win rate of at least 50% and 1 otherwise;
\* with 3 or more games 2 below 40%, 3 from 40% to 60% inclusive, 4 above 60%;
\* and wins + losses = games.
C31_HeatIntensity ==
    \A k \in 1..Len(fnOut.heatmap) :
        LET e == fnOut.heatmap[k]
        IN /\ e.intensity \in 0..4
           /\ e.intensity = 0 <=> e.games = 0
           /\ e.intensity = ExpectedIntensity(e.games, e.wins)
           /\ e.wins + e.losses = e.games

\* a finished heatmap holding a day of each intensity, with days of exactly
\* 40% and of exactly 60% (both intensity 3)
C31_Witness ==
    /\ fnPc = "heatDone"
    /\ \A n \in 0..4 : \E k \in 1..Len(fnOut.heatmap) : fnOut.heatmap[k].intensity = n
    /\ \E k \in 1..Len(fnOut.heatmap) :
          /\ fnOut.heatmap[k].games = 5 /\ fnOut.heatmap[k].wins = 3
          /\ fnOut.heatmap[k].intensity = 3
    /\ \E k \in 1..Len(fnOut.heatmap) :
          /\ fnOut.heatmap[k].games = 5 /\ fnOut.heatmap[k].wins = 2
          /\ fnOut.heatmap[k].intensity = 3

\* ------------------------------------------------------------------ C32
\* the 1-based positions of the first TeammateWindow matches that count the
\* teammate (name, tag)
CountedMatches(name, tag) ==
    {i \in 1..Len(fnArgs.matches) :
        /\ i <= TeammateWindow
        /\ fnArgs.matches[i].me
        /\ fnArgs.matches[i].teamMatesSummary # None
        /\ \E j \in 1..Len(fnArgs.matches[i].teamMatesSummary[1]) :
              /\ fnArgs.matches[i].teamMatesSummary[1][j].summonerName = name
              /\ fnArgs.matches[i].teamMatesSummary[1][j].tagLine = tag}

WonMatches(name, tag) ==
    {i \in CountedMatches(name, tag) :
        \E j \in 1..Len(fnArgs.matches[i].teamMatesSummary[1]) :
           /\ fnArgs.matches[i].teamMatesSummary[1][j].summonerName = name
           /\ fnArgs.matches[i].teamMatesSummary[1][j].tagLine = tag
           /\ fnArgs.matches[i].teamMatesSummary[1][j].win}

\* C32: the teammates returned are at most 5, in order of non-increasing
\* games, one per (name, tag); each has as games the number of matches among
\* the first 20 of the list that hold it (so at least one such match: a
\* teammate seen only at index 20 or later is not reported), as wins the
\* number of those it won, wins <= games and losses = games - wins.
C32_TeammatesOfFirstTwenty ==
    fnPc = "teamDone" =>
        /\ Len(fnOut.teammates) <= 5
        /\ \A k \in 1..Len(fnOut.teammates) :
              LET t == fnOut.teammates[k]
              IN /\ k > 1 => fnOut.teammates[k - 1].games >= t.games
                 /\ \A l \in 1..Len(fnOut.teammates) :
                       (fnOut.teammates[l].name = t.name /\ fnOut.teammates[l].tag = t.tag)
                           => l = k
                 /\ t.games = Cardinality(CountedMatches(t.name, t.tag))
                 /\ t.wins = Cardinality(WonMatches(t.name, t.tag))
                 /\ \E i \in 1..Len(fnArgs.matches) :
                       i - 1 < 20 /\ i \in CountedMatches(t.name, t.tag)
                 /\ t.wins <= t.games
                 /\ t.losses = t.games - t.wins

\* Zed played only the match at index 20 or later, fewer than 5 teammates
\* are returned, and Zed is not among them
C32_Witness ==
    /\ fnPc = "teamDone"
    /\ \E i \in 21..Len(fnArgs.matches) :
          /\ fnArgs.matches[i].me
          /\ fnArgs.matches[i].teamMatesSummary # None
          /\ fnArgs.matches[i].teamMatesSummary[1][1].summonerName = "Zed"
    /\ Len(fnOut.teammates) < 5
    /\ Len(fnOut.teammates) > 0
    /\ \A k \in 1..Len(fnOut.teammates) : fnOut.teammates[k].name # "Zed"

\* more than 5 teammates were counted, 5 are returned, Ann of EUW and Ann of
\* NA1 apart
C32_WitnessTopFive ==
    /\ fnPc = "teamDone"
    /\ Len(fnOut.teammatesMap) > 5
    /\ Len(fnOut.teammates) = 5
    /\ \E k, l \in 1..5 :
          /\ fnOut.teammates[k].name = "Ann" /\ fnOut.teammates[k].tag = "EUW"
          /\ fnOut.teammates[l].name = "Ann" /\ fnOut.teammates[l].tag = "NA1"

\* ------------------------------------------------------------------ C33
\* n^2 times the population variance of the scores, a whole number
VarianceTimesSquare(scores) ==
    Len(scores) * SumOf([k \in 1..Len(scores) |-> scores[k] * scores[k]])
        - SumOf(scores) * SumOf(scores)

\* the badge of the rule: neutral below 5 scores; with 5 or more, Rock Solid
\* for a variance below 64, Coinflip above 324, neutral from 64 to 324
ExpectedBadge(scores) ==
    IF Len(scores) < 5 THEN "Average"
    ELSE IF VarianceTimesSquare(scores) < 64 * Len(scores) * Len(scores) THEN "Rock Solid"
    ELSE IF VarianceTimesSquare(scores) > 324 * Len(scores) * Len(scores) THEN "Coinflip"
    ELSE "Average"

\* C33: calculateConsistency returns 'Average' for fewer than 5 scores; for 5
\* or more 'Rock Solid' exactly when the population variance of the scores
\* is below 64, 'Coinflip' exactly when it is above 324, 'Average' otherwise.
C33_ConsistencyBadge ==
    fnPc = "consDone" => fnOut.badge = ExpectedBadge(fnArgs.scores)

\* nine scores of variance exactly 64 (standard deviation 8) are Rock Solid
C33_BoundaryRockSolid ==
    /\ fnPc = "consDone"
    /\ Len(fnArgs.scores) = 9
    /\ VarianceTimesSquare(fnArgs.scores) = 64 * 9 * 9
    /\ fnOut.badge = "Rock Solid"

\* ------------------------------------------------------------------ C34
\* C34: a player with a ScannedSummoner record is not handed to
\* processPlayer; every player handed to processPlayer has a ScannedSummoner
\* record once the loop has moved on or the run is over; so no player is
\* handed to processPlayer twice, within a run or across runs.
C34_PlayerScannedOnce ==
    /\ [][\A p \in SeedPuuids :
             (p \in fnOut.scanned /\ fnPc \in {"seedLoop", "seedProcessPlayer", "seedCreate",
                                               "seedReturned", "seedExit"})
                 => fnOut'.handed[p] = fnOut.handed[p]]_vars
    /\ [](\A p \in SeedPuuids :
             /\ fnOut.handed[p] <= 1
             /\ (fnPc \in {"seedLoop", "seedReturned", "seedExit"} /\ fnOut.handed[p] > 0)
                    => p \in fnOut.scanned)

\* a player handed to processPlayer in the first run, which exited, and
\* handed to it again in the second
C34_HandedTwice ==
    /\ fnPc = "seedProcessPlayer"
    /\ fnOut.run = 2
    /\ fnOut.handed[fnOut.players[fnOut.i]] = 2
    /\ fnOut.players[fnOut.i] \notin fnOut.scanned

\* ------------------------------------------------------------------ C35
\* every entry of the frequency map has at most the matches and the wins of
\* its bucket
WithinBucket(row, map) ==
    \A k \in DOMAIN map : map[k].matches <= row.matches /\ map[k].wins <= row.wins

\* C35: in every champion bucket, each entry of the items, runes, spells and
\* skillOrder maps has matches <= the matches of the bucket and wins <= its
\* wins: one participant adds at most 1 to any key.
C35_FrequencyWithinBucket ==
    \A key \in DOMAIN championStat :
        /\ WithinBucket(championStat[key], championStat[key].items)
        /\ WithinBucket(championStat[key], championStat[key].runes)
        /\ WithinBucket(championStat[key], championStat[key].spells)
        /\ WithinBucket(championStat[key], championStat[key].skillOrder)

\* a bucket of one match, of a participant whose final build is one item
\* and whose offense and flex stat-perk slots hold the same rune: the item
\* and the rune have 2 matches each
C35_CountedTwice ==
    \E key \in DOMAIN championStat :
        /\ championStat[key].matches = 1
        /\ \E k \in DOMAIN championStat[key].runes :
              championStat[key].runes[k].matches = 2
        /\ \E k \in DOMAIN championStat[key].items :
              /\ DOMAIN championStat[key].items = {k}
              /\ championStat[key].items[k].matches = 2
        /\ WithinBucket(championStat[key], championStat[key].spells)
        /\ WithinBucket(championStat[key], championStat[key].skillOrder)

\* ------------------------------------------------------------------ C36
\* the key of the bucket of the opponent against the champion
MirrorKey(key) == <<key[2], key[1], key[3], key[4], key[5], key[6]>>

\* the matches processed so far are complete
MirrorBetweenMatches ==
    \/ fnPc = "mirrorDone"
    \/ fnPc = "mirrorParticipant" /\ fnOut.j = 1

\* C36: after any sequence of processed matches, for every matchup bucket
\* A vs B of a role the bucket B vs A exists with the same matches, and the
\* wins of the two add up to the matches.
C36_MirrorSymmetric ==
    MirrorBetweenMatches =>
        \A key \in DOMAIN fnOut.matchupStat :
            /\ MirrorKey(key) \in DOMAIN fnOut.matchupStat
            /\ fnOut.matchupStat[MirrorKey(key)].matches = fnOut.matchupStat[key].matches
            /\ fnOut.matchupStat[key].wins + fnOut.matchupStat[MirrorKey(key)].wins
                  = fnOut.matchupStat[key].matches

\* one match with two MID participants in team 200 is processed: LeeSin vs
\* Ahri has a bucket, Ahri vs LeeSin has none
C36_WitnessTwoMid ==
    /\ MirrorBetweenMatches
    /\ \E key \in DOMAIN fnOut.matchupStat :
          /\ key[1] = "LeeSin" /\ key[2] = "Ahri" /\ key[3] = "MID"
          /\ MirrorKey(key) \notin DOMAIN fnOut.matchupStat

\* ------------------------------------------------------------------ C37
\* C37: executeFetchWithRetries ends whatever the fetches come back with;
\* at most 3 fetches end in a retryable error and at most 10 waits follow a
\* 429, so at most 13 fetches are made; it returns the players of the first
\* ok response, and [] when a budget is used up or the status is not
\* retryable.
C37_FetchTerminates ==
    /\ [](/\ fnOut.retryable <= 3
          /\ fnOut.waits <= 10
          /\ fnOut.fetches <= 13
          /\ fnPc = "fetchLoop" => fnOut.last # "ok"
          /\ fnPc = "fetchDone" =>
                IF fnOut.last = "ok"
                THEN /\ Len(fnOut.players) = (IF Len(fnArgs.body) < fnArgs.count
                                              THEN Len(fnArgs.body) ELSE fnArgs.count)
                     /\ \A k \in 1..Len(fnOut.players) :
                           /\ \E b \in 1..Len(fnArgs.body) : fnOut.players[k] = fnArgs.body[b]
                           /\ \A l \in 1..Len(fnOut.players) :
                                 fnOut.players[l] = fnOut.players[k] => l = k
                ELSE /\ fnOut.players = <<>>
                     /\ \/ fnOut.last = "404"
                        \/ fnOut.last = "429" /\ fnOut.waits = 10
                        \/ fnOut.last \in {"5xx", "thrown"} /\ fnOut.retryable = 3)
    /\ <>(fnPc = "fetchDone")

\* the longest call: 13 fetches, of which 10 were followed by a wait, and []
C37_Witness ==
    /\ fnPc = "fetchDone"
    /\ fnOut.fetches = 13
    /\ fnOut.waits = 10
    /\ fnOut.players = <<>>

\* an ok response after retries: two of three players
C37_WitnessPlayers ==
    /\ fnPc = "fetchDone"
    /\ fnOut.last = "ok"
    /\ fnOut.retryable = 2
    /\ fnOut.waits > 0
    /\ Len(fnOut.players) = 2

\* ------------------------------------------------------------------ C38
\* the five pieces of data the catch of loadData may reset
LoadedData(hook) ==
    <<hook.profile, hook.matches, hook.heatmap, hook.champions, hook.teammates>>

\* C38: the step in which a call of loadData fails leaves profile, matches,
\* heatmap, champions and teammates as they were when the call is an update
\* or a poll, and empties them when it is the initial load; the step in
\* which a call ends, failed or not, leaves loading false, and updating
\* false unless the call is a poll.
C38_FailureFrame ==
    [][\A c \in 1..NumLoads :
          (fnPc = "hook" /\ fnOut.calls[c].pc = "awaiting" /\ fnOut'.calls[c].pc # "awaiting")
              => /\ fnOut'.calls[c].pc = "failed" =>
                       IF fnOut.calls[c].isUpdate \/ fnOut.calls[c].isPolling
                       THEN LoadedData(fnOut'.hook) = LoadedData(fnOut.hook)
                       ELSE LoadedData(fnOut'.hook) = <<None, <<>>, <<>>, <<>>, <<>>>>
                 /\ ~fnOut'.hook.loading
                 /\ ~fnOut.calls[c].isPolling => ~fnOut'.hook.updating]_vars

\* a poll has failed and the data loaded before is still there
C38_Witness ==
    /\ fnPc = "hook"
    /\ \E c \in 1..NumLoads :
          /\ fnOut.calls[c].pc = "failed"
          /\ fnOut.calls[c].isPolling
          /\ ~fnOut.calls[c].isUpdate
    /\ \A c \in 1..NumLoads : fnOut.calls[c].pc # "awaiting"
    /\ fnOut.hook.profile # None
    /\ Len(fnOut.hook.matches) = 2
    /\ fnOut.hook.updateError # None
    /\ ~fnOut.hook.loading

====
